---- MODULE Spec2Model ----
(***************************************************************************)
(* The event bus of just_agents (src/core/just_agents/just_bus.py):        *)
(* JustEventBus, the registry of subscriber callbacks with exact and       *)
(* prefix matching, and BufferedEventBus, which keeps undelivered events   *)
(* in a bounded deque and retries them at each publish, subscribe and      *)
(* trim_by_prefix; SingletonMeta, which gives every bus class one instance *)
(* per process; the helpers of JustLogBus; and the wrapper that JustTool    *)
(* (src/core/just_agents/just_tool.py) puts around a tool function.        *)
(*                                                                         *)
(* Strings are sequences of one-character strings, so that endswith,       *)
(* startswith and slicing are computed as Python computes them.  A call of *)
(* a bus method is one action; the calls a callback makes back into the    *)
(* bus while it runs are part of that action.                              *)
(***************************************************************************)
EXTENDS Integers, Sequences, FiniteSets, TLC

VARIABLES
    cls,              \* the concrete class of the bus instance
    buffer_max_size,  \* BufferedEventBus._buffer_max_size
    subscribers,      \* JustEventBus._subscribers: a dict, in key insertion order
    buffer,           \* BufferedEventBus._buffer: the deque, oldest first
    nid,              \* the next unused event payload (callers pass a fresh one)
    last,             \* the last call made on the bus: its arguments, result and trace
    instances,        \* SingletonMeta._instances: class -> reference to its instance
    heap,             \* the bus objects constructed so far; a reference is an index
    threads           \* the threads running a call: their place in the code and locals

vars == <<cls, buffer_max_size, subscribers, buffer, nid, last, instances, heap,
          threads>>

----------------------------------------------------------------------------
(* Bounds of the model. *)

MaxCap == 2    \* buffer_size given to the constructor ranges over 0..MaxCap
MaxRegs == 3   \* JustEventBus: subscribe is called while fewer registrations exist
MaxBufRegs == 2  \* BufferedEventBus: subscribe is called while fewer registrations exist
MaxPub == 3    \* publish is called from outside at most MaxPub times

----------------------------------------------------------------------------
(* The inputs: event names, patterns, prefixes, callbacks. *)

DotStar == <<".", "*">>

EventNames == { <<"a">>, <<"a", "b">>, <<"b">> }

Patterns == { <<"a">>, <<"a", ".", "*">>, DotStar }

TrimPrefixes == { <<>>, <<"a">>, <<"b">> }

KwArgs == { "k1" }

\* f only receives; h publishes an event named HName on the same bus whenever
\* it receives an event of another name.
Callbacks == { "f", "h" }

\* g logs a message with the source HName, through JustLogBus.info, whenever
\* it receives an event of another name
LoggingCallbacks == { "g" }

\* r raises whenever it receives an event whose name is in RaiseNames
RaisingCallbacks == { "r" }

\* x raises whenever it receives an event
FailingCallbacks == { "x" }

\* s subscribes f, on the same bus, under the name of the event it receives;
\* u unsubscribes f, on the same bus, from every pattern of Patterns
RegisteringCallbacks == { "s", "u" }

\* the name of the wrapped tool function and the three kinds of its events
ToolName == <<"t">>

Dot == <<".">>

Execute == <<"e", "x", "e", "c", "u", "t", "e">>

Result == <<"r", "e", "s", "u", "l", "t">>

Error == <<"e", "r", "r", "o", "r">>

RaiseNames == { <<"b">>, ToolName \o Dot \o Result }

HName == <<"b">>

HKwArgs == "k2"

NoName == <<>>

NoCallback == "-"

NoEvent == [name |-> NoName, args |-> 0, kwargs |-> "-"]

----------------------------------------------------------------------------
(* Python's str.endswith, str.startswith, dict.get, list.remove and        *)
(* deque.append on a deque with maxlen.                                    *)

endswith(s, suffix) ==
    /\ Len(suffix) <= Len(s)
    /\ SubSeq(s, Len(s) - Len(suffix) + 1, Len(s)) = suffix

startswith(s, prefix) ==
    /\ Len(prefix) <= Len(s)
    /\ SubSeq(s, 1, Len(prefix)) = prefix

\* pattern[:-2]
StripLast2(s) == SubSeq(s, 1, Len(s) - 2)

HasKey(subs, key) == \E i \in 1..Len(subs) : subs[i].pattern = key

KeyIndex(subs, key) == CHOOSE i \in 1..Len(subs) : subs[i].pattern = key

\* self._subscribers.get(event_name, [])
dict_get(subs, key) ==
    IF HasKey(subs, key) THEN subs[KeyIndex(subs, key)].callbacks ELSE <<>>

InList(l, x) == \E i \in 1..Len(l) : l[i] = x

\* a removal of the last occurrence of x
list_remove_Last(l, x) ==
    LET i == CHOOSE k \in 1..Len(l) : l[k] = x /\ \A j \in (k + 1)..Len(l) : l[j] # x
    IN  SubSeq(l, 1, i - 1) \o SubSeq(l, i + 1, Len(l))

\* list.remove(x): removes the first occurrence of x
list_remove(l, x) ==
    LET i == CHOOSE k \in 1..Len(l) : l[k] = x /\ \A j \in 1..(k - 1) : l[j] # x
    IN  SubSeq(l, 1, i - 1) \o SubSeq(l, i + 1, Len(l))

\* a deque without maxlen
deque_append_Unbounded(buf, cap, x) == Append(buf, x)

\* a bounded queue that refuses the new entry when it is full
deque_append_DropNewest(buf, cap, x) ==
    IF Len(buf) >= cap THEN buf ELSE Append(buf, x)

\* a bounded queue kept in the order of the payloads: x goes in front of the
\* entries published after it
deque_append_InPublishOrder(buf, cap, x) ==
    LET older == SelectSeq(buf, LAMBDA e : e.args < x.args)
        newer == SelectSeq(buf, LAMBDA e : e.args >= x.args)
        all == older \o <<x>> \o newer
    IN  IF cap = 0 THEN buf
        ELSE IF Len(all) > cap THEN Tail(all)
        ELSE all

\* deque(maxlen=cap).append(x): a full deque discards its oldest entry
deque_append(buf, cap, x) ==
    IF cap = 0 THEN buf
    ELSE IF Len(buf) >= cap THEN Append(Tail(buf), x)
    ELSE Append(buf, x)

----------------------------------------------------------------------------
(* The machine the methods run on: the fields of the bus, the trace of the *)
(* running call, the depth of nested publish calls, and the result.        *)

World(c, cap, subs, buf, n) ==
    [cls |-> c, cap |-> cap, subs |-> subs, buf |-> buf, nid |-> n,
     log |-> <<>>, d |-> 0, raised |-> FALSE, ret |-> FALSE, cnt |-> 0]

LogEntry(t, cb, ev, d) == [t |-> t, cb |-> cb, ev |-> ev, d |-> d]

\* the trace also notes each publish a helper or a wrapper makes ("publish")
\* and each call of a wrapped function ("func")
Note(w, t, ev) == [w EXCEPT !.log = Append(@, LogEntry(t, NoCallback, ev, w.d))]

----------------------------------------------------------------------------
(* JustEventBus *)

JustEventBus_subscribe(w, event_prefix, callback) ==
    LET subs1 == IF ~HasKey(w.subs, event_prefix)
                 THEN Append(w.subs, [pattern |-> event_prefix, callbacks |-> <<>>])
                 ELSE w.subs
        i == KeyIndex(subs1, event_prefix)
    IN  [w EXCEPT !.subs = [subs1 EXCEPT ![i].callbacks = Append(@, callback)],
                  !.ret = TRUE]

\* unsubscribe that looks for the callback under every key of the registry
JustEventBus_unsubscribe_AnyKey(w, event_prefix, callback) ==
    IF \E i \in 1..Len(w.subs) : InList(w.subs[i].callbacks, callback)
    THEN LET i == CHOOSE i \in 1..Len(w.subs) : InList(w.subs[i].callbacks, callback)
         IN  [w EXCEPT !.subs[i].callbacks = list_remove(@, callback),
                       !.ret = TRUE]
    ELSE [w EXCEPT !.ret = FALSE]

JustEventBus_unsubscribe(w, event_prefix, callback) ==
    IF HasKey(w.subs, event_prefix)
    THEN LET i == KeyIndex(w.subs, event_prefix)
         IN  IF InList(w.subs[i].callbacks, callback)
             THEN [w EXCEPT !.subs[i].callbacks = list_remove(@, callback),
                            !.ret = TRUE]
             ELSE [w EXCEPT !.ret = FALSE]
    ELSE [w EXCEPT !.ret = FALSE]

\* the loop over self._subscribers.items() that collects prefix_callbacks
RECURSIVE prefix_callbacks(_, _, _)
prefix_callbacks(subs, event_name, i) ==
    IF i > Len(subs) THEN <<>>
    ELSE (IF /\ endswith(subs[i].pattern, DotStar)
             /\ startswith(event_name, StripLast2(subs[i].pattern))
          THEN subs[i].callbacks
          ELSE <<>>) \o prefix_callbacks(subs, event_name, i + 1)

RECURSIVE DispatchLoop(_, _, _, _, _)
RECURSIVE JustEventBus_dispatch_event(_, _)
RECURSIVE BufferedEventBus_publish(_, _)
RECURSIVE BufferedEventBus_flush_buffer(_, _)
RECURSIVE FlushLoop(_, _, _, _, _)
RECURSIVE publish(_, _)
RECURSIVE JustLogBus_info(_, _, _, _, _)
RECURSIVE subscribe(_, _, _)
RECURSIVE unsubscribe(_, _, _)
RECURSIVE Call(_, _, _)

\* the callback raises when it is called with the event
Raises(cb, ev) ==
    \/ cb \in RaisingCallbacks /\ ev.name \in RaiseNames
    \/ cb \in FailingCallbacks

\* the event h publishes: named HName, with the next unused payload
HEvent(w) == [name |-> HName, args |-> w.nid, kwargs |-> HKwArgs]

\* a bus whose publish, called by a running callback, only queues the event
\* for the outer call to deliver
Call_Posting(w, cb, ev) ==
    LET w1 == [w EXCEPT !.log = Append(@, LogEntry("call", cb, ev, w.d))]
    IN  IF Raises(cb, ev)
        THEN [w1 EXCEPT !.raised = TRUE]
        ELSE IF cb = "h" /\ ev.name # HName
        THEN LET w2 == Note([w1 EXCEPT !.d = @ + 1, !.nid = @ + 1], "publish", HEvent(w1))
             IN  [w2 EXCEPT !.d = w.d, !.buf = deque_append(@, w2.cap, HEvent(w1))]
        ELSE w1

\* cb(event_name, *args, **kwargs): the subscriber runs
Call(w, cb, ev) ==
    LET w1 == [w EXCEPT !.log = Append(@, LogEntry("call", cb, ev, w.d))]
    IN  IF Raises(cb, ev)
        THEN [w1 EXCEPT !.raised = TRUE]
        ELSE IF cb = "h" /\ ev.name # HName
        THEN LET w2 == publish(Note([w1 EXCEPT !.d = @ + 1, !.nid = @ + 1],
                                    "publish", HEvent(w1)),
                               HEvent(w1))
             IN  [w2 EXCEPT !.d = w.d]
        ELSE IF cb \in LoggingCallbacks /\ ev.name # HName
        THEN LET w2 == JustLogBus_info([w1 EXCEPT !.d = @ + 1, !.nid = @ + 1],
                                       w1.nid, <<HName>>, <<>>, <<>>)
             IN  [w2 EXCEPT !.d = w.d]
        ELSE IF cb = "s"
        THEN LET w2 == subscribe([w1 EXCEPT !.d = @ + 1], ev.name, "f")
             IN  [w2 EXCEPT !.d = w.d]
        ELSE IF cb = "u"
        THEN LET w2 == unsubscribe([w1 EXCEPT !.d = @ + 1], <<"a">>, "f")
                 w3 == unsubscribe(w2, <<"a", ".", "*">>, "f")
                 w4 == unsubscribe(w3, DotStar, "f")
             IN  [w4 EXCEPT !.d = w.d]
        ELSE w1

\* DispatchLoop without "if cb not in seen"
DispatchLoop_NoDedup(w, cbs, i, seen, ev) ==
    IF i > Len(cbs) THEN [w EXCEPT !.ret = (Cardinality(seen) > 0)]
    ELSE LET w1 == Call(w, cbs[i], ev)
         IN  IF w1.raised THEN w1
             ELSE DispatchLoop(w1, cbs, i + 1, seen \cup {cbs[i]}, ev)

\* DispatchLoop with each callback run inside try/except
DispatchLoop_Isolating(w, cbs, i, seen, ev) ==
    IF i > Len(cbs) THEN [w EXCEPT !.ret = (Cardinality(seen) > 0)]
    ELSE IF cbs[i] \in seen THEN DispatchLoop(w, cbs, i + 1, seen, ev)
    ELSE LET w1 == Call(w, cbs[i], ev)
         IN  DispatchLoop([w1 EXCEPT !.raised = FALSE], cbs, i + 1,
                          seen \cup {cbs[i]}, ev)

\* DispatchLoop looking each callback up in the registry again before it
\* calls it
DispatchLoop_Live(w, cbs, i, seen, ev) ==
    IF i > Len(cbs) THEN [w EXCEPT !.ret = (Cardinality(seen) > 0)]
    ELSE IF cbs[i] \in seen THEN DispatchLoop(w, cbs, i + 1, seen, ev)
    ELSE IF ~InList(dict_get(w.subs, ev.name) \o prefix_callbacks(w.subs, ev.name, 1),
                    cbs[i])
    THEN DispatchLoop(w, cbs, i + 1, seen, ev)
    ELSE LET w1 == Call(w, cbs[i], ev)
         IN  IF w1.raised THEN w1
             ELSE DispatchLoop(w1, cbs, i + 1, seen \cup {cbs[i]}, ev)

\* for cb in exact_callbacks + prefix_callbacks: if cb not in seen: ...
DispatchLoop(w, cbs, i, seen, ev) ==
    IF i > Len(cbs) THEN [w EXCEPT !.ret = (Cardinality(seen) > 0)]
    ELSE IF cbs[i] \in seen THEN DispatchLoop(w, cbs, i + 1, seen, ev)
    ELSE CHOOSE r \in { IF w1.raised THEN w1
                        ELSE DispatchLoop(w1, cbs, i + 1, seen \cup {cbs[i]}, ev) :
                        w1 \in { Call(w, cbs[i], ev) } } : TRUE

\* _dispatch_event returning true as soon as the name is a key of the registry
JustEventBus_dispatch_event_KeyKnown(w, ev) ==
    LET exact_callbacks == dict_get(w.subs, ev.name)
        r == DispatchLoop(w, exact_callbacks \o prefix_callbacks(w.subs, ev.name, 1),
                          1, {}, ev)
    IN  IF r.raised THEN r ELSE [r EXCEPT !.ret = @ \/ HasKey(w.subs, ev.name)]

\* _dispatch_event walking prefix_callbacks + exact_callbacks
JustEventBus_dispatch_event_PrefixFirst(w, ev) ==
    LET exact_callbacks == dict_get(w.subs, ev.name)
    IN  DispatchLoop(w, prefix_callbacks(w.subs, ev.name, 1) \o exact_callbacks,
                     1, {}, ev)

\* _dispatch_event returning true as soon as a pattern of the registry
\* matches the name, whether a callback stands under it or not
JustEventBus_dispatch_event_PatternKnown(w, ev) ==
    LET exact_callbacks == dict_get(w.subs, ev.name)
        r == DispatchLoop(w, exact_callbacks \o prefix_callbacks(w.subs, ev.name, 1),
                          1, {}, ev)
        known == \E i \in 1..Len(w.subs) :
                     \/ w.subs[i].pattern = ev.name
                     \/ /\ endswith(w.subs[i].pattern, DotStar)
                        /\ startswith(ev.name, StripLast2(w.subs[i].pattern))
    IN  IF r.raised THEN r ELSE [r EXCEPT !.ret = @ \/ known]

JustEventBus_dispatch_event(w, ev) ==
    LET exact_callbacks == dict_get(w.subs, ev.name)
    IN  DispatchLoop(w, exact_callbacks \o prefix_callbacks(w.subs, ev.name, 1),
                     1, {}, ev)

JustEventBus_publish(w, ev) == JustEventBus_dispatch_event(w, ev)

----------------------------------------------------------------------------
(* BufferedEventBus *)

\* trim_prefix is None (the empty tuple here) or a string (a 1-tuple)
None == <<>>

Some(s) == <<s>>

\* "if trim_prefix": None and the empty string are both false
Truthy(trim_prefix) == trim_prefix # None /\ Len(trim_prefix[1]) > 0

\* the trace notes the return of a flush pass and the buffer it left
FlushEnd(w) ==
    [t |-> "flushed", cb |-> NoCallback, ev |-> NoEvent, d |-> w.d, buf |-> w.buf]

\* _flush_buffer counting only the entries it trimmed
FlushLoop_TrimmedOnly(w, trim_prefix, i, buffer_size, removed_count) ==
    IF i > buffer_size \/ Len(w.buf) = 0
    THEN [w EXCEPT !.cnt = removed_count,
                   !.log = Append(@, FlushEnd(w))]
    ELSE LET ev == Head(w.buf)
             w1 == [w EXCEPT !.buf = Tail(@),
                             !.log = Append(@, LogEntry("pop", NoCallback, ev, w.d))]
         IN  IF Truthy(trim_prefix) /\ startswith(ev.name, trim_prefix[1])
             THEN FlushLoop([w1 EXCEPT !.log = Append(@, LogEntry("trim", NoCallback, ev, w.d))],
                            trim_prefix, i + 1, buffer_size, removed_count + 1)
             ELSE LET w2 == JustEventBus_dispatch_event(w1, ev)
                  IN  IF w2.raised THEN w2
                      ELSE IF ~w2.ret
                      THEN FlushLoop([w2 EXCEPT !.buf = deque_append(@, w2.cap, ev),
                                                !.log = Append(@, LogEntry("back", NoCallback, ev, w.d))],
                                     trim_prefix, i + 1, buffer_size, removed_count)
                      ELSE FlushLoop(w2, trim_prefix, i + 1, buffer_size, removed_count)

\* for _ in range(buffer_size): ...
\* The trace notes each entry taken ("pop"), trimmed ("trim") and put back
\* ("back"), and the return of the pass ("flushed"); publish notes the event
\* it appends to the buffer ("enq").
FlushLoop(w, trim_prefix, i, buffer_size, removed_count) ==
    IF i > buffer_size \/ Len(w.buf) = 0
    THEN [w EXCEPT !.cnt = removed_count,
                   !.log = Append(@, FlushEnd(w))]
    ELSE LET ev == Head(w.buf)
             w1 == [w EXCEPT !.buf = Tail(@),
                             !.log = Append(@, LogEntry("pop", NoCallback, ev, w.d))]
         IN  IF Truthy(trim_prefix) /\ startswith(ev.name, trim_prefix[1])
             THEN FlushLoop([w1 EXCEPT !.log = Append(@, LogEntry("trim", NoCallback, ev, w.d))],
                            trim_prefix, i + 1, buffer_size, removed_count + 1)
             ELSE CHOOSE r \in
                      { IF w2.raised THEN w2
                        ELSE IF ~w2.ret
                        THEN FlushLoop([w2 EXCEPT !.buf = deque_append(@, w2.cap, ev),
                                                  !.log = Append(@, LogEntry("back", NoCallback, ev, w.d))],
                                       trim_prefix, i + 1, buffer_size, removed_count)
                        ELSE FlushLoop(w2, trim_prefix, i + 1, buffer_size,
                                       removed_count + 1) :
                        w2 \in { JustEventBus_dispatch_event(w1, ev) } } : TRUE

\* the trace notes the start of a flush pass and the buffer it found
FlushMark(w) ==
    [t |-> "flush", cb |-> NoCallback, ev |-> NoEvent, d |-> w.d, buf |-> w.buf]

\* _flush_buffer making one dequeue attempt more than the buffer held entries
BufferedEventBus_flush_buffer_OneMore(w, trim_prefix) ==
    FlushLoop([w EXCEPT !.log = Append(@, FlushMark(w))],
              trim_prefix, 1, Len(w.buf) + 1, 0)

\* buffer_size = len(self._buffer); for _ in range(buffer_size): ...
BufferedEventBus_flush_buffer(w, trim_prefix) ==
    FlushLoop([w EXCEPT !.log = Append(@, FlushMark(w))],
              trim_prefix, 1, Len(w.buf), 0)

\* subscribe that does not flush
BufferedEventBus_subscribe_NoFlush(w, event_prefix, callback) ==
    JustEventBus_subscribe(w, event_prefix, callback)

\* subscribe that flushes before it registers the callback
BufferedEventBus_subscribe_FlushFirst(w, event_prefix, callback) ==
    LET w1 == BufferedEventBus_flush_buffer(w, None)
    IN  IF w1.raised THEN w1 ELSE JustEventBus_subscribe(w1, event_prefix, callback)

BufferedEventBus_subscribe(w, event_prefix, callback) ==
    LET w1 == JustEventBus_subscribe(w, event_prefix, callback)
    IN  CHOOSE r \in { IF w2.raised THEN w2 ELSE [w2 EXCEPT !.ret = w1.ret] :
                       w2 \in { BufferedEventBus_flush_buffer(w1, None) } } : TRUE

\* publish returning what the last dispatch of its flush returned
BufferedEventBus_publish_FlushResult(w, ev) ==
    LET w1 == JustEventBus_publish(w, ev)
        delivered == w1.ret
        w2 == IF ~delivered
              THEN [w1 EXCEPT !.buf = deque_append(@, w1.cap, ev),
                              !.log = Append(@, LogEntry("enq", NoCallback, ev, w1.d))]
              ELSE w1
        w3 == BufferedEventBus_flush_buffer(w2, None)
    IN  IF w1.raised THEN w1 ELSE w3

\* publish that puts every event in the buffer, delivered or not
BufferedEventBus_publish_BufferAll(w, ev) ==
    LET w1 == JustEventBus_publish(w, ev)
        delivered == w1.ret
        w2 == [w1 EXCEPT !.buf = deque_append(@, w1.cap, ev),
                         !.log = Append(@, LogEntry("enq", NoCallback, ev, w1.d))]
        w3 == BufferedEventBus_flush_buffer(w2, None)
    IN  IF w1.raised THEN w1
        ELSE IF w3.raised THEN w3
        ELSE [w3 EXCEPT !.ret = delivered]

\* publish that keeps the event when its dispatch raised
BufferedEventBus_publish_KeepOnRaise(w, ev) ==
    LET w1 == JustEventBus_publish(w, ev)
        delivered == w1.ret
        w2 == IF ~delivered
              THEN [w1 EXCEPT !.buf = deque_append(@, w1.cap, ev),
                              !.log = Append(@, LogEntry("enq", NoCallback, ev, w1.d))]
              ELSE w1
        w3 == BufferedEventBus_flush_buffer(w2, None)
    IN  IF w1.raised THEN [w1 EXCEPT !.buf = deque_append(@, w1.cap, ev)]
        ELSE IF w3.raised THEN w3
        ELSE [w3 EXCEPT !.ret = delivered]

BufferedEventBus_publish(w, ev) ==
    CHOOSE r \in
        { LET delivered == w1.ret
              w2 == IF ~delivered
                    THEN [w1 EXCEPT !.buf = deque_append(@, w1.cap, ev),
                                    !.log = Append(@, LogEntry("enq", NoCallback, ev, w1.d))]
                    ELSE w1
          IN  IF w1.raised THEN w1
              ELSE CHOOSE r3 \in { IF w3.raised THEN w3 ELSE [w3 EXCEPT !.ret = delivered] :
                                   w3 \in { BufferedEventBus_flush_buffer(w2, None) } } : TRUE :
          w1 \in { JustEventBus_publish(w, ev) } } : TRUE

BufferedEventBus_trim_by_prefix(w, prefix) ==
    BufferedEventBus_flush_buffer(w, Some(prefix))

----------------------------------------------------------------------------
(* Method resolution: the method of the instance's class. *)

\* the class statements: class C(B)
Base(c) ==
    CASE c = "BufferedEventBus" -> "JustEventBus"
      [] c = "JustToolsBus" -> "JustEventBus"
      [] c = "just_tool.JustToolsBus" -> "JustEventBus"
      [] c = "JustLogBus" -> "BufferedEventBus"
      [] OTHER -> "object"

RECURSIVE issubclass(_, _)
issubclass(c, b) == c = b \/ (c # "object" /\ issubclass(Base(c), b))

Buffered(c) == issubclass(c, "BufferedEventBus")

publish(w, ev) ==
    IF Buffered(w.cls) THEN BufferedEventBus_publish(w, ev)
    ELSE JustEventBus_publish(w, ev)

subscribe(w, event_prefix, callback) ==
    IF Buffered(w.cls) THEN BufferedEventBus_subscribe(w, event_prefix, callback)
    ELSE JustEventBus_subscribe(w, event_prefix, callback)

unsubscribe(w, event_prefix, callback) ==
    JustEventBus_unsubscribe(w, event_prefix, callback)

----------------------------------------------------------------------------
(* JustLogBus: the static helpers.  w is the instance JustLogBus() returns; *)
(* an argument with a default is None (the empty tuple) or a 1-tuple; the  *)
(* message is a number, the next unused one at each call, so that messages *)
(* tell the order in which they were logged.                               *)

\* source: str = 'anonymous_logger'
DefaultSource ==
    <<"a", "n", "o", "n", "y", "m", "o", "u", "s", "_", "l", "o", "g", "g", "e", "r">>

Default(arg, d) == IF arg = None THEN d ELSE arg[1]

\* f(k=v, **kwargs): a keyword given twice is a TypeError
Conflict(keys, kwargs) == keys \cap DOMAIN kwargs # {}

\* JustLogBus.log_message(message, source, action, **kwargs)
JustLogBus_log_message(w, message, source, action, kwargs) ==
    IF Conflict({"log_message", "action"}, kwargs) THEN [w EXCEPT !.raised = TRUE]
    ELSE LET ev == [name |-> Default(source, DefaultSource), args |-> 0,
                    kwargs |-> [log_message |-> message,
                                action |-> Default(action, "log_bus.log_entry")]
                               @@ kwargs]
         IN  publish(Note(w, "publish", ev), ev)

JustLogBus_trace(w, message, source, action, kwargs) ==
    IF Conflict({"severity"}, kwargs) THEN [w EXCEPT !.raised = TRUE]
    ELSE JustLogBus_log_message(w, message, <<Default(source, DefaultSource)>>,
                                <<Default(action, "log_bus.trace")>>,
                                [severity |-> "TRACE"] @@ kwargs)

JustLogBus_debug(w, message, source, action, kwargs) ==
    IF Conflict({"severity"}, kwargs) THEN [w EXCEPT !.raised = TRUE]
    ELSE JustLogBus_log_message(w, message, <<Default(source, DefaultSource)>>,
                                <<Default(action, "log_bus.debug")>>,
                                [severity |-> "DEBUG"] @@ kwargs)

JustLogBus_info(w, message, source, action, kwargs) ==
    IF Conflict({"severity"}, kwargs) THEN [w EXCEPT !.raised = TRUE]
    ELSE JustLogBus_log_message(w, message, <<Default(source, DefaultSource)>>,
                                <<Default(action, "log_bus.info")>>,
                                [severity |-> "INFO"] @@ kwargs)

JustLogBus_warn(w, message, source, action, kwargs) ==
    IF Conflict({"severity"}, kwargs) THEN [w EXCEPT !.raised = TRUE]
    ELSE JustLogBus_log_message(w, message, <<Default(source, DefaultSource)>>,
                                <<Default(action, "log_bus.warn")>>,
                                [severity |-> "WARN"] @@ kwargs)

JustLogBus_error(w, message, source, action, kwargs) ==
    IF Conflict({"severity"}, kwargs) THEN [w EXCEPT !.raised = TRUE]
    ELSE JustLogBus_log_message(w, message, <<Default(source, DefaultSource)>>,
                                <<Default(action, "log_bus.error")>>,
                                [severity |-> "ERROR"] @@ kwargs)

JustLogBus_fatal(w, message, source, action, kwargs) ==
    IF Conflict({"severity"}, kwargs) THEN [w EXCEPT !.raised = TRUE]
    ELSE JustLogBus_log_message(w, message, <<Default(source, DefaultSource)>>,
                                <<Default(action, "log_bus.fatal")>>,
                                [severity |-> "FATAL"] @@ kwargs)

\* JustLogBus.<helper>(message, source, action, **kwargs)
JustLogBus_helper(helper, w, message, source, action, kwargs) ==
    CASE helper = "trace" -> JustLogBus_trace(w, message, source, action, kwargs)
      [] helper = "debug" -> JustLogBus_debug(w, message, source, action, kwargs)
      [] helper = "info" -> JustLogBus_info(w, message, source, action, kwargs)
      [] helper = "warn" -> JustLogBus_warn(w, message, source, action, kwargs)
      [] helper = "error" -> JustLogBus_error(w, message, source, action, kwargs)
      [] helper = "fatal" -> JustLogBus_fatal(w, message, source, action, kwargs)

----------------------------------------------------------------------------
(* The state machine: one bus instance and the calls made on it. *)

Last(op, pat, cb, ev, w) ==
    [op |-> op, pat |-> pat, cb |-> cb, ev |-> ev,
     ret |-> w.ret, cnt |-> w.cnt, raised |-> w.raised, log |-> w.log]

Here == World(cls, buffer_max_size, subscribers, buffer, nid)

NoCall ==
    [op |-> "init", pat |-> NoName, cb |-> NoCallback, ev |-> NoEvent,
     ret |-> FALSE, cnt |-> 0, raised |-> FALSE, log |-> <<>>]

\* JustEventBus()
InitCore ==
    /\ cls = "JustEventBus"
    /\ buffer_max_size = 0
    /\ subscribers = <<>>
    /\ buffer = <<>>
    /\ nid = 1
    /\ last = NoCall
    /\ instances = <<>>
    /\ heap = <<>>
    /\ threads = <<>>

\* BufferedEventBus(buffer_size)
InitBuffered ==
    /\ cls = "BufferedEventBus"
    /\ buffer_max_size \in 0..MaxCap
    /\ subscribers = <<>>
    /\ buffer = <<>>
    /\ nid = 1
    /\ last = NoCall
    /\ instances = <<>>
    /\ heap = <<>>
    /\ threads = <<>>

RECURSIVE SumLen(_, _)
SumLen(subs, i) ==
    IF i > Len(subs) THEN 0 ELSE Len(subs[i].callbacks) + SumLen(subs, i + 1)

Commit(w, l) ==
    /\ subscribers' = w.subs
    /\ buffer' = w.buf
    /\ nid' = w.nid
    /\ last' = l
    /\ UNCHANGED <<cls, buffer_max_size, instances, heap, threads>>

Subscribe(event_prefix, callback) ==
    /\ SumLen(subscribers, 1) < (IF Buffered(cls) THEN MaxBufRegs ELSE MaxRegs)
    /\ LET w == subscribe(Here, event_prefix, callback)
       IN  Commit(w, Last("subscribe", event_prefix, callback, NoEvent, w))

Unsubscribe(event_prefix, callback) ==
    /\ cls \in {"JustEventBus", "BufferedEventBus"}
    /\ LET w == unsubscribe(Here, event_prefix, callback)
       IN  Commit(w, Last("unsubscribe", event_prefix, callback, NoEvent, w))

Publish(event_name, kwargs) ==
    /\ nid <= MaxPub
    /\ LET ev == [name |-> event_name, args |-> nid, kwargs |-> kwargs]
           w == publish([Here EXCEPT !.nid = @ + 1], ev)
       IN  Commit(w, Last("publish", NoName, NoCallback, ev, w))

TrimByPrefix(prefix) ==
    /\ Buffered(cls)
    /\ LET w == BufferedEventBus_trim_by_prefix(Here, prefix)
       IN  Commit(w, Last("trim_by_prefix", prefix, NoCallback, NoEvent, w))

NextCore ==
    \/ \E p \in Patterns, cb \in Callbacks : Subscribe(p, cb)
    \/ \E p \in Patterns, cb \in Callbacks : Unsubscribe(p, cb)
    \/ \E n \in EventNames, k \in KwArgs : Publish(n, k)

NextBuffered ==
    \/ \E p \in Patterns, cb \in Callbacks : Subscribe(p, cb)
    \/ \E p \in Patterns, cb \in Callbacks : Unsubscribe(p, cb)
    \/ \E n \in EventNames, k \in KwArgs : Publish(n, k)
    \/ \E p \in TrimPrefixes : TrimByPrefix(p)

\* a JustEventBus and the calls made on it
SpecCore == InitCore /\ [][NextCore]_vars

\* a BufferedEventBus and the calls made on it
SpecBuffered == InitBuffered /\ [][NextBuffered]_vars

\* a bus of either class and the calls made on it
InitBus == InitCore \/ InitBuffered

SpecBus == InitBus /\ [][NextBuffered]_vars

\* a JustEventBus some of whose subscribers raise
NextRaise ==
    \/ \E p \in Patterns, cb \in Callbacks \cup RaisingCallbacks : Subscribe(p, cb)
    \/ \E p \in Patterns, cb \in Callbacks \cup RaisingCallbacks : Unsubscribe(p, cb)
    \/ \E n \in EventNames, k \in KwArgs : Publish(n, k)

SpecRaise == InitCore /\ [][NextRaise]_vars

\* a bus whose subscribers publish, subscribe and unsubscribe
ReentrantCallbacks == { "h" } \cup RegisteringCallbacks

ReentrantPatterns == { <<"a">>, DotStar }

NextReentrant ==
    \/ \E p \in ReentrantPatterns, cb \in ReentrantCallbacks : Subscribe(p, cb)
    \/ \E p \in ReentrantPatterns, cb \in ReentrantCallbacks : Unsubscribe(p, cb)
    \/ \E n \in EventNames, k \in KwArgs : Publish(n, k)
    \/ \E p \in TrimPrefixes : TrimByPrefix(p)

SpecReentrant == InitBus /\ [][NextReentrant]_vars

\* a BufferedEventBus some of whose subscribers raise
BufferedRaiseCallbacks == { "h" } \cup FailingCallbacks

NextBufferedRaise ==
    \/ \E p \in Patterns, cb \in BufferedRaiseCallbacks : Subscribe(p, cb)
    \/ \E p \in Patterns, cb \in BufferedRaiseCallbacks : Unsubscribe(p, cb)
    \/ \E n \in EventNames, k \in KwArgs : Publish(n, k)
    \/ \E p \in TrimPrefixes : TrimByPrefix(p)

SpecBufferedRaise == InitBuffered /\ [][NextBufferedRaise]_vars

----------------------------------------------------------------------------
(* SingletonMeta: the process, its bus classes and their instances. *)

MaxProcRegs == 2  \* subscribe is called while the buses hold fewer registrations
MaxProcPub == 2   \* publish is called from outside at most MaxProcPub times
MaxObjects == 2   \* the process constructs buses of at most MaxObjects classes

\* the bus classes of just_bus.py
Classes == { "JustEventBus", "BufferedEventBus", "JustToolsBus", "JustLogBus" }

\* the arguments a caller gives to the constructor: none, or a buffer_size
CtorArgs == { <<>>, <<1>> }

ProcPatterns == { <<"a">> }

ProcNames == { <<"a">>, <<"b">> }

\* the references a caller may hold
Refs == 1..MaxObjects

\* BufferedEventBus.__init__(self, buffer_size: int = 255)
DefaultBufferSize == 255

NoObject == [cls |-> "object", cap |-> 0, subs |-> <<>>, buf |-> <<>>]

\* type.__call__(cls, *args): a new object of the class, initialised by the
\* __init__ the class inherits; JustEventBus.__init__ takes no argument
type_call(c, args) ==
    IF Buffered(c)
    THEN [raised |-> FALSE,
          obj |-> [cls |-> c,
                   cap |-> IF args = <<>> THEN DefaultBufferSize ELSE args[1],
                   subs |-> <<>>, buf |-> <<>>]]
    ELSE IF args # <<>> THEN [raised |-> TRUE, obj |-> NoObject]
    ELSE [raised |-> FALSE, obj |-> [cls |-> c, cap |-> 0, subs |-> <<>>, buf |-> <<>>]]

\* a metaclass that constructs at every call
SingletonMeta_call_Always(insts, hp, c, args) ==
    LET r == type_call(c, args)
    IN  IF r.raised
        THEN [instances |-> insts, heap |-> hp, raised |-> TRUE, ret |-> 0]
        ELSE [instances |-> (c :> (Len(hp) + 1)) @@ insts,
              heap |-> Append(hp, r.obj), raised |-> FALSE, ret |-> Len(hp) + 1]

\* a metaclass that hands out the instance of a class the called one derives from
SingletonMeta_call_OfBase(insts, hp, c, args) ==
    IF \E k \in DOMAIN insts : issubclass(c, k)
    THEN [instances |-> insts, heap |-> hp, raised |-> FALSE,
          ret |-> insts[CHOOSE k \in DOMAIN insts : issubclass(c, k)]]
    ELSE SingletonMeta_call_Always(insts, hp, c, args)

\* SingletonMeta.__call__(cls, *args, **kwargs)
SingletonMeta_call(insts, hp, c, args) ==
    IF c \notin DOMAIN insts
    THEN LET r == type_call(c, args)
         IN  IF r.raised
             THEN [instances |-> insts, heap |-> hp, raised |-> TRUE, ret |-> 0]
             ELSE [instances |-> (c :> (Len(hp) + 1)) @@ insts,
                   heap |-> Append(hp, r.obj), raised |-> FALSE, ret |-> Len(hp) + 1]
    ELSE [instances |-> insts, heap |-> hp, raised |-> FALSE, ret |-> insts[c]]

\* the bus a reference points to, as the machine the methods run on
WorldAt(hp, ref, n) == World(hp[ref].cls, hp[ref].cap, hp[ref].subs, hp[ref].buf, n)

WorldOf(ref) == WorldAt(heap, ref, nid)

NoValue == "-"

NoOutcome == [kind |-> "-", value |-> NoValue]

\* the last call made in the process: the class or reference it went to too
ProcLast(op, c, ref, pat, cb, ev, w) ==
    [op |-> op, cls |-> c, ref |-> ref, args |-> <<>>, pat |-> pat, cb |-> cb,
     ev |-> ev, outcome |-> NoOutcome, result |-> NoValue, exc |-> NoValue,
     ret |-> w.ret, cnt |-> w.cnt, raised |-> w.raised, log |-> w.log]

NoProcCall ==
    [op |-> "init", cls |-> "object", ref |-> 0, args |-> <<>>, pat |-> NoName,
     cb |-> NoCallback, ev |-> NoEvent, outcome |-> NoOutcome, result |-> NoValue,
     exc |-> NoValue, ret |-> FALSE, cnt |-> 0, raised |-> FALSE, log |-> <<>>]

\* a process in which no bus has been constructed yet
InitProcess ==
    /\ cls = "object"
    /\ buffer_max_size = 0
    /\ subscribers = <<>>
    /\ buffer = <<>>
    /\ nid = 1
    /\ last = NoProcCall
    /\ instances = <<>>
    /\ heap = <<>>
    /\ threads = <<>>

RECURSIVE HeapRegs(_)
HeapRegs(i) == IF i > Len(heap) THEN 0 ELSE SumLen(heap[i].subs, 1) + HeapRegs(i + 1)

CommitOn(ref, w, l) ==
    /\ heap' = [heap EXCEPT ![ref].subs = w.subs, ![ref].buf = w.buf]
    /\ nid' = w.nid
    /\ last' = l
    /\ UNCHANGED <<cls, buffer_max_size, subscribers, buffer, instances, threads>>

\* C(*args) for a bus class C
Construct(c, args) ==
    /\ c \in DOMAIN instances \/ Len(heap) < MaxObjects
    /\ LET r == SingletonMeta_call(instances, heap, c, args)
       IN  /\ instances' = r.instances
           /\ heap' = r.heap
           /\ last' = [NoProcCall EXCEPT !.op = "construct", !.cls = c, !.ref = r.ret,
                                         !.args = args, !.raised = r.raised]
    /\ UNCHANGED <<cls, buffer_max_size, subscribers, buffer, nid, threads>>

\* the methods, called through a reference a construction returned
SubscribeOn(ref, event_prefix, callback) ==
    /\ ref \in 1..Len(heap)
    /\ HeapRegs(1) < MaxProcRegs
    /\ LET w == subscribe(WorldOf(ref), event_prefix, callback)
       IN  CommitOn(ref, w, ProcLast("subscribe", heap[ref].cls, ref,
                                     event_prefix, callback, NoEvent, w))

UnsubscribeOn(ref, event_prefix, callback) ==
    /\ ref \in 1..Len(heap)
    /\ LET w == unsubscribe(WorldOf(ref), event_prefix, callback)
       IN  CommitOn(ref, w, ProcLast("unsubscribe", heap[ref].cls, ref,
                                     event_prefix, callback, NoEvent, w))

PublishOn(ref, event_name, kwargs) ==
    /\ ref \in 1..Len(heap)
    /\ nid <= MaxProcPub
    /\ LET ev == [name |-> event_name, args |-> nid, kwargs |-> kwargs]
           w == publish([WorldOf(ref) EXCEPT !.nid = @ + 1], ev)
       IN  CommitOn(ref, w, ProcLast("publish", heap[ref].cls, ref,
                                     NoName, NoCallback, ev, w))

TrimByPrefixOn(ref, prefix) ==
    /\ ref \in 1..Len(heap)
    /\ Buffered(heap[ref].cls)
    /\ LET w == BufferedEventBus_trim_by_prefix(WorldOf(ref), prefix)
       IN  CommitOn(ref, w, ProcLast("trim_by_prefix", heap[ref].cls, ref,
                                     prefix, NoCallback, NoEvent, w))

NextSingleton ==
    \/ \E c \in Classes, args \in CtorArgs : Construct(c, args)
    \/ \E ref \in Refs, p \in ProcPatterns, cb \in Callbacks :
           SubscribeOn(ref, p, cb)
    \/ \E ref \in Refs, p \in ProcPatterns, cb \in Callbacks :
           UnsubscribeOn(ref, p, cb)
    \/ \E ref \in Refs, n \in ProcNames, k \in KwArgs : PublishOn(ref, n, k)
    \/ \E ref \in Refs, p \in ProcNames : TrimByPrefixOn(ref, p)

\* a process that constructs buses of the four classes and calls them
SpecSingleton == InitProcess /\ [][NextSingleton]_vars

----------------------------------------------------------------------------
(* JustTool (just_tool.py): the wrapper around a tool function and the bus *)
(* it publishes on.                                                        *)

MaxToolRegs == 2   \* subscribe is called while the buses hold fewer registrations
MaxToolCalls == 1  \* the wrapped function is called at most MaxToolCalls times

\* class JustToolsBus(JustEventBus) of just_tool.py, the one the wrapper uses
ToolsBusOfTool == "just_tool.JustToolsBus"

\* the classes named JustToolsBus: that of just_tool.py and that of just_bus.py
ToolBusClasses == { ToolsBusOfTool, "JustToolsBus" }

\* type: Optional[str] of JustTool.subscribe
ToolTypes == { None, Some(Execute), Some(Result), Some(Error) }

ToolPatterns == { ToolName \o DotStar, ToolName \o Dot \o Result }

ToolCallbacks == { "f", "r" }

\* what the wrapped function does when it is called
Outcomes == { [kind |-> "return", value |-> "v"], [kind |-> "raise", value |-> "e"] }

\* the exception a raising subscriber raises
SubscriberError == "s"

\* f"{self.name}.*" if type is None else f"{self.name}.{type}"
tool_pattern(type) ==
    IF type = None THEN ToolName \o DotStar ELSE ToolName \o Dot \o type[1]

\* In the three operators of the wrapper, x \in {e} names the value of e, the
\* state of the bus after a statement, for the statements that follow it.

\* except Exception as e: bus.publish(f"{name}.error", error=e); raise e
wrapper_except(w, e) ==
    LET er == [name |-> ToolName \o Dot \o Error, args |-> 0, kwargs |-> [error |-> e]]
    IN  CHOOSE res \in
            { [w |-> w1, raised |-> TRUE, result |-> NoValue,
               exc |-> IF w1.raised THEN SubscriberError ELSE e] :
              w1 \in { publish(Note([w EXCEPT !.raised = FALSE], "publish", er), er) } } :
            TRUE

\* result = func(*args, **kwargs); bus.publish(f"{name}.result", ...); return result
wrapper_try(w, kwargs, outcome) ==
    LET rs == [name |-> ToolName \o Dot \o Result, args |-> 0,
               kwargs |-> [result_interceptor |-> outcome.value, kwargs |-> kwargs]]
    IN  IF outcome.kind = "return"
        THEN CHOOSE res \in
                 { IF w1.raised THEN wrapper_except(w1, SubscriberError)
                   ELSE [w |-> w1, raised |-> FALSE, result |-> outcome.value,
                         exc |-> NoValue] :
                   w1 \in { publish(Note(w, "publish", rs), rs) } } :
                 TRUE
        ELSE wrapper_except(w, outcome.value)

\* __wrapper(*args, **kwargs), on the bus w that JustToolsBus() returned
JustTool_wrapper(w, args, kwargs, outcome) ==
    LET ex == [name |-> ToolName \o Dot \o Execute, args |-> args,
               kwargs |-> [kwargs |-> kwargs]]
    IN  CHOOSE res \in
            { IF w1.raised
              THEN [w |-> w1, raised |-> TRUE, result |-> NoValue,
                    exc |-> SubscriberError]
              ELSE wrapper_try(Note(w1, "func", ex), kwargs, outcome) :
              w1 \in { publish(Note(w, "publish", ex), ex) } } :
            TRUE

\* the assignments of a call that first got its bus from the class
CommitVia(r, w, l) ==
    /\ instances' = r.instances
    /\ heap' = [r.heap EXCEPT ![r.ret].subs = w.subs, ![r.ret].buf = w.buf]
    /\ nid' = w.nid
    /\ last' = l
    /\ UNCHANGED <<cls, buffer_max_size, subscribers, buffer, threads>>

\* JustTool.subscribe(callback, type)
ToolSubscribe(type, callback) ==
    /\ HeapRegs(1) < MaxToolRegs
    /\ LET r == SingletonMeta_call(instances, heap, ToolsBusOfTool, <<>>)
           w == subscribe(WorldAt(r.heap, r.ret, nid), tool_pattern(type), callback)
       IN  CommitVia(r, w, ProcLast("JustTool.subscribe", ToolsBusOfTool, r.ret,
                                    tool_pattern(type), callback, NoEvent, w))

\* JustTool.unsubscribe(callback, type)
ToolUnsubscribe(type, callback) ==
    /\ nid <= MaxToolCalls + 1
    /\ LET r == SingletonMeta_call(instances, heap, ToolsBusOfTool, <<>>)
           w == unsubscribe(WorldAt(r.heap, r.ret, nid), tool_pattern(type), callback)
       IN  CommitVia(r, w, ProcLast("JustTool.unsubscribe", ToolsBusOfTool, r.ret,
                                    tool_pattern(type), callback, NoEvent, w))

\* JustToolsBus().subscribe(pattern, callback), JustToolsBus being the class
\* the caller imported from just_tool or from just_bus
BusSubscribe(c, event_prefix, callback) ==
    /\ HeapRegs(1) < MaxToolRegs
    /\ LET r == SingletonMeta_call(instances, heap, c, <<>>)
           w == subscribe(WorldAt(r.heap, r.ret, nid), event_prefix, callback)
       IN  CommitVia(r, w, ProcLast("subscribe", c, r.ret,
                                    event_prefix, callback, NoEvent, w))

\* a call of the wrapped function
CallTool(kwargs, outcome) ==
    /\ nid <= MaxToolCalls
    /\ \E r \in { SingletonMeta_call(instances, heap, ToolsBusOfTool, <<>>) } :
       \E res \in { JustTool_wrapper([WorldAt(r.heap, r.ret, nid) EXCEPT !.nid = @ + 1],
                                     nid, kwargs, outcome) } :
           CommitVia(r, res.w,
                     [ProcLast("call_tool", ToolsBusOfTool, r.ret, NoName, NoCallback,
                               NoEvent, res.w)
                        EXCEPT !.raised = res.raised, !.outcome = outcome,
                               !.result = res.result, !.exc = res.exc])

NextTools ==
    \/ \E type \in ToolTypes, cb \in ToolCallbacks : ToolSubscribe(type, cb)
    \/ \E type \in ToolTypes, cb \in ToolCallbacks : ToolUnsubscribe(type, cb)
    \/ \E c \in ToolBusClasses, p \in ToolPatterns, cb \in ToolCallbacks :
           BusSubscribe(c, p, cb)
    \/ \E k \in KwArgs, o \in Outcomes : CallTool(k, o)

\* a process that wraps one tool function, subscribes to its events and calls it
SpecTools == InitProcess /\ [][NextTools]_vars

----------------------------------------------------------------------------
(* JustLogBus: the process that logs and the subscribers of the log bus. *)

MaxLogRegs == 2  \* subscribe is called while the log bus holds fewer registrations
MaxLogs == 2     \* a helper is called from outside at most MaxLogs times

Helpers == { "trace", "debug", "info", "warn", "error", "fatal" }

\* what the caller passes besides the message
LogArgs ==
    { [source |-> None, action |-> None, kwargs |-> <<>>],
      [source |-> Some(HName), action |-> None, kwargs |-> <<>>],
      [source |-> Some(HName), action |-> Some("act"), kwargs |-> [user |-> "u"]] }

LogPatterns == { DefaultSource, HName }

LogCallbacks == { "f", "g" }

\* JustLogBus.<helper>(message, source, action, **kwargs)
LogHelper(helper, a) ==
    /\ nid <= MaxLogs
    /\ \E r \in { SingletonMeta_call(instances, heap, "JustLogBus", <<>>) } :
       \E w \in { JustLogBus_helper(helper,
                                    [WorldAt(r.heap, r.ret, nid) EXCEPT !.nid = @ + 1],
                                    nid, a.source, a.action, a.kwargs) } :
           CommitVia(r, w, [ProcLast("log", "JustLogBus", r.ret, NoName, NoCallback,
                                     NoEvent, w)
                              EXCEPT !.args = [helper |-> helper, message |-> nid,
                                               source |-> a.source, action |-> a.action,
                                               kwargs |-> a.kwargs]])

\* JustLogBus().subscribe(pattern, callback)
LogSubscribe(event_prefix, callback) ==
    /\ HeapRegs(1) < MaxLogRegs
    /\ \E r \in { SingletonMeta_call(instances, heap, "JustLogBus", <<>>) } :
       \E w \in { subscribe(WorldAt(r.heap, r.ret, nid), event_prefix, callback) } :
           CommitVia(r, w, ProcLast("subscribe", "JustLogBus", r.ret,
                                    event_prefix, callback, NoEvent, w))

NextLog ==
    \/ \E helper \in Helpers, a \in LogArgs : LogHelper(helper, a)
    \/ \E p \in LogPatterns, cb \in LogCallbacks : LogSubscribe(p, cb)

\* a process that logs through the helpers and subscribes to the log bus
SpecLog == InitProcess /\ [][NextLog]_vars

----------------------------------------------------------------------------
(* What the claims speak of: the registrations and the trace of the last   *)
(* call.                                                                   *)

Range(l) == { l[i] : i \in 1..Len(l) }

\* the pattern is the name itself, or p.* for a string p the name starts with
Matches(pattern, name) ==
    \/ pattern = name
    \/ \E k \in 0..Len(name) : pattern = SubSeq(name, 1, k) \o DotStar

\* callback cb is registered under a pattern that matches the name
Subscribed(cb, name) ==
    \E i \in 1..Len(subscribers) :
        /\ Matches(subscribers[i].pattern, name)
        /\ cb \in Range(subscribers[i].callbacks)

\* the callbacks the outermost call ran itself, in the order it ran them
Calls0 == SelectSeq(last.log, LAMBDA e : e.t = "call" /\ e.d = 0)

Returned(op) == last.op = op /\ ~last.raised

\* how often callback cb was run by the outermost call
Times0(cb) == Cardinality({ i \in 1..Len(Calls0) : Calls0[i].cb = cb })

----------------------------------------------------------------------------
(* C1: on the core bus one publish(name, args, kwargs) runs exactly the    *)
(* callbacks registered under the pattern equal to name or under a pattern *)
(* p.* with name starting with p; each of them once, with (name, args,     *)
(* kwargs) as passed, however many matching registrations it has; and no   *)
(* other callback.                                                         *)
C1_PublishInvokesMatchingOnce ==
    (Returned("publish") /\ cls = "JustEventBus") =>
        /\ \A cb \in Callbacks :
               Times0(cb) = (IF Subscribed(cb, last.ev.name) THEN 1 ELSE 0)
        /\ \A i \in 1..Len(Calls0) : Calls0[i].ev = last.ev

\* a publish that ran two callbacks, one of them registered under the exact
\* pattern and under a prefix pattern, on a registry where a prefix pattern
\* matches the name "ab" by its first letter and does not match "b"
C1_Witness ==
    /\ Returned("publish")
    /\ cls = "JustEventBus"
    /\ Len(Calls0) = 2
    /\ \E cb \in Callbacks, i, j \in 1..Len(subscribers) :
           /\ subscribers[i].pattern = last.ev.name
           /\ subscribers[j].pattern # last.ev.name
           /\ Matches(subscribers[j].pattern, last.ev.name)
           /\ cb \in Range(subscribers[i].callbacks)
           /\ cb \in Range(subscribers[j].callbacks)
    /\ \E cb \in Callbacks : ~Subscribed(cb, <<"b">>) /\ Subscribed(cb, <<"a", "b">>)

(* C2: on the core bus publish returns true iff it ran at least one        *)
(* callback, and false exactly when no registered pattern with a non-empty *)
(* callback list matches the name.                                         *)
C2_PublishReturnsDelivered ==
    (Returned("publish") /\ cls = "JustEventBus") =>
        /\ last.ret = (Len(Calls0) > 0)
        /\ last.ret = (\E cb \in Callbacks : Subscribed(cb, last.ev.name))

\* publish returned false although a matching pattern is still a key of the
\* registry: its callbacks were all unsubscribed
C2_Witness ==
    /\ Returned("publish")
    /\ cls = "JustEventBus"
    /\ ~last.ret
    /\ \E i \in 1..Len(subscribers) :
           /\ Matches(subscribers[i].pattern, last.ev.name)
           /\ subscribers[i].callbacks = <<>>

(* C3: within one publish the callbacks run in the order of their first    *)
(* appearance in: the callbacks of the exact pattern, in registration      *)
(* order, then those of each matching prefix pattern, the patterns in the  *)
(* order their keys entered the registry, each in registration order.      *)

\* pattern is p.* for a string p the name starts with
PrefixMatches(pattern, name) ==
    \E k \in 0..Len(name) : pattern = SubSeq(name, 1, k) \o DotStar

\* where cb stands for an event of this name: <<0, j>> is place j under the
\* exact pattern, <<i, j>> place j under the i-th key, a matching prefix pattern
Places(cb, name) ==
    { <<0, j>> : j \in { j \in 1..Len(dict_get(subscribers, name)) :
                           dict_get(subscribers, name)[j] = cb } }
    \cup
    UNION { { <<i, j>> : j \in { j \in 1..Len(subscribers[i].callbacks) :
                                   subscribers[i].callbacks[j] = cb } } :
            i \in { i \in 1..Len(subscribers) :
                      PrefixMatches(subscribers[i].pattern, name) } }

Before(p, q) == p[1] < q[1] \/ (p[1] = q[1] /\ p[2] < q[2])

FirstPlace(cb, name) ==
    CHOOSE p \in Places(cb, name) : \A q \in Places(cb, name) : p = q \/ Before(p, q)

C3_DeliveryOrder ==
    (Returned("publish") /\ cls = "JustEventBus") =>
        \A i, j \in 1..Len(Calls0) :
            i < j =>
                /\ Places(Calls0[i].cb, last.ev.name) # {}
                /\ Places(Calls0[j].cb, last.ev.name) # {}
                /\ Before(FirstPlace(Calls0[i].cb, last.ev.name),
                          FirstPlace(Calls0[j].cb, last.ev.name))

\* a publish that ran two callbacks: first the one under the exact pattern,
\* whose key entered the registry last, then one that stands under two
\* prefix patterns
C3_Witness ==
    /\ Returned("publish")
    /\ cls = "JustEventBus"
    /\ Len(Calls0) = 2
    /\ Len(subscribers) = 3
    /\ subscribers[3].pattern = last.ev.name
    /\ FirstPlace(Calls0[1].cb, last.ev.name)[1] = 0
    /\ Cardinality(Places(Calls0[2].cb, last.ev.name)) = 2

----------------------------------------------------------------------------
(* The buffered bus. *)

\* the outermost call ran a callback for event e
Received0(e) == \E i \in 1..Len(Calls0) : Calls0[i].ev = e

(* C4, as stated: a buffered publish returns whether a callback received   *)
(* the event in its own dispatch; if none did, the event is at the back of *)
(* the buffer and the result is false; if one did, the event is not in the *)
(* buffer and the result is true.                                          *)
C4_PublishBuffersUndelivered_AsStated ==
    (Returned("publish") /\ Buffered(cls)) =>
        /\ last.ret = Received0(last.ev)
        /\ ~Received0(last.ev) =>
               (Len(buffer) > 0 /\ buffer[Len(buffer)] = last.ev)
        /\ Received0(last.ev) => last.ev \notin Range(buffer)

(* C4, amended: the same for a bus of capacity at least 1; on a bus of     *)
(* capacity 0 the undelivered event is not kept and the buffer is empty.   *)
C4_PublishBuffersUndelivered ==
    (Returned("publish") /\ Buffered(cls)) =>
        /\ last.ret = Received0(last.ev)
        /\ (~Received0(last.ev) /\ buffer_max_size >= 1) =>
               (Len(buffer) > 0 /\ buffer[Len(buffer)] = last.ev)
        /\ (~Received0(last.ev) /\ buffer_max_size = 0) => buffer = <<>>
        /\ Received0(last.ev) => last.ev \notin Range(buffer)

\* an undelivered publish on a full buffer: the event is at the back, behind
\* an older entry, and the result is false
C4_Witness ==
    /\ Returned("publish")
    /\ Buffered(cls)
    /\ ~last.ret
    /\ Len(buffer) = 2
    /\ buffer[2] = last.ev
    /\ SumLen(subscribers, 1) > 0

(* C5: a subscribe whose pattern matches buffered events delivers each of  *)
(* them to the new callback exactly once before it returns and removes     *)
(* them from the buffer; buffered events the pattern does not match stay   *)
(* in the buffer; the result is true.                                      *)
C5_SubscribeReplaysBuffered ==
    [][(last'.op = "subscribe" /\ ~last'.raised /\ Buffered(cls)) =>
          /\ last'.ret = TRUE
          /\ \A k \in 1..Len(buffer) :
                 IF Matches(last'.pat, buffer[k].name)
                 THEN /\ Cardinality({ i \in 1..Len(last'.log) :
                                         /\ last'.log[i].t = "call"
                                         /\ last'.log[i].cb = last'.cb
                                         /\ last'.log[i].ev = buffer[k] }) = 1
                      /\ buffer[k] \notin Range(buffer')
                 ELSE buffer[k] \in Range(buffer')]_vars

\* a subscribe of f under a prefix pattern that replayed a buffered event and
\* left another, which the pattern does not match, in the buffer
C5_Witness ==
    /\ Returned("subscribe")
    /\ Buffered(cls)
    /\ last.cb = "f"
    /\ last.pat = <<"a", ".", "*">>
    /\ Len(Calls0) = 1
    /\ Calls0[1].ev.name = <<"a", "b">>
    /\ Len(buffer) = 1
    /\ ~Matches(last.pat, buffer[1].name)

(* C6: the buffer never holds more entries than the capacity given at      *)
(* construction.                                                           *)
C6_BufferWithinCapacity == Len(buffer) <= buffer_max_size

\* a full buffer after a subscribe during whose flush a callback published
\* an event that was buffered
C6_Witness ==
    /\ Returned("subscribe")
    /\ Buffered(cls)
    /\ buffer_max_size = 2
    /\ Len(buffer) = buffer_max_size
    /\ \E k \in 1..Len(buffer) : buffer[k].kwargs = HKwArgs
    /\ Len(Calls0) > 0

(* C7: on a bus without subscribers a publish leaves in the buffer the     *)
(* last min(n + 1, C) entries of the n it held followed by the new event,  *)
(* in that order: publishing k events leaves the last min(k, C) in publish *)
(* order, and the flush of each publish neither reorders nor drops.        *)
LastN(s, n) == SubSeq(s, Len(s) - n + 1, Len(s))

Min(a, b) == IF a < b THEN a ELSE b

C7_CapacityKeepsNewest ==
    [][(last'.op = "publish" /\ Buffered(cls) /\ SumLen(subscribers, 1) = 0) =>
          /\ ~last'.ret
          /\ buffer' = LastN(Append(buffer, last'.ev),
                             Min(Len(buffer) + 1, buffer_max_size))]_vars

\* three events published on a bus of capacity 2 that never had a subscriber:
\* the first is gone, the second and third are kept in order
C7_Witness ==
    /\ last.op = "publish"
    /\ Buffered(cls)
    /\ buffer_max_size = 2
    /\ subscribers = <<>>
    /\ nid = 4
    /\ Len(buffer) = 2
    /\ buffer[1].args = 2
    /\ buffer[2].args = 3

(* C8: the buffered events are always in the order in which they were     *)
(* first queued (payloads are handed out in publish order), and a callback *)
(* that is handed two buffered events by a flush gets them in that order.  *)
Popped0(e) ==
    \E i \in 1..Len(last.log) :
        last.log[i].t = "pop" /\ last.log[i].d = 0 /\ last.log[i].ev = e

C8_BufferOrderPreserved ==
    /\ \A i, j \in 1..Len(buffer) : i < j => buffer[i].args < buffer[j].args
    /\ \A i, j \in 1..Len(Calls0) :
           (/\ i < j
            /\ Calls0[i].cb = Calls0[j].cb
            /\ Popped0(Calls0[i].ev)
            /\ Popped0(Calls0[j].ev)) => Calls0[i].ev.args <= Calls0[j].ev.args

(* C9: trim_by_prefix(p) removes every buffered event whose name starts    *)
(* with p, for every string p, and runs no callback for any of them.       *)
C9_TrimRemovesEveryMatch ==
    [][(last'.op = "trim_by_prefix" /\ ~last'.raised) =>
          \A k \in 1..Len(buffer) :
              startswith(buffer[k].name, last'.pat) =>
                  /\ buffer[k] \notin Range(buffer')
                  /\ \A i \in 1..Len(last'.log) :
                         last'.log[i].t = "call" => last'.log[i].ev # buffer[k]]_vars

\* the same for the prefixes that are not the empty string
C9_TrimRemovesNonEmptyPrefix ==
    [][(last'.op = "trim_by_prefix" /\ ~last'.raised /\ last'.pat # <<>>) =>
          \A k \in 1..Len(buffer) :
              startswith(buffer[k].name, last'.pat) =>
                  /\ buffer[k] \notin Range(buffer')
                  /\ \A i \in 1..Len(last'.log) :
                         last'.log[i].t = "call" => last'.log[i].ev # buffer[k]]_vars

(* C10: the number a flush pass returns is the number of entries the pass  *)
(* discarded for their prefix plus the number it dispatched to a callback; *)
(* the entries it took and put back are not counted, so the number is at   *)
(* least the number of trimmed entries.                                    *)

\* the places in the trace where the outermost flush pass did t
Marks0(t) == { i \in 1..Len(last.log) : last.log[i].t = t /\ last.log[i].d = 0 }

\* the entry taken at place i of the trace was handed to a callback by the pass
Dispatched0(i) ==
    \E j \in (i + 1)..Len(last.log) :
        /\ last.log[j].t = "call"
        /\ last.log[j].d = 0
        /\ last.log[j].ev = last.log[i].ev

FlushOps == {"publish", "subscribe", "trim_by_prefix"}

C10_FlushCount ==
    (last.op \in FlushOps /\ ~last.raised /\ Buffered(cls)) =>
        /\ last.cnt = Cardinality(Marks0("trim"))
                      + Cardinality({ i \in Marks0("pop") : Dispatched0(i) })
        /\ Cardinality(Marks0("pop")) = last.cnt + Cardinality(Marks0("back"))
        /\ last.cnt >= Cardinality(Marks0("trim"))
        /\ \A i \in Marks0("trim") :
               last.op = "trim_by_prefix" /\ startswith(last.log[i].ev.name, last.pat)

\* a trim_by_prefix that took two entries, discarded one and put the other back
C10_Witness ==
    /\ Returned("trim_by_prefix")
    /\ Cardinality(Marks0("pop")) = 2
    /\ Cardinality(Marks0("trim")) = 1
    /\ Cardinality(Marks0("back")) = 1
    /\ last.cnt = 1

\* a subscribe whose flush took two entries, dispatched one and put one back
C10_WitnessDispatch ==
    /\ Returned("subscribe")
    /\ Cardinality(Marks0("pop")) = 2
    /\ Cardinality(Marks0("back")) = 1
    /\ last.cnt = 1

----------------------------------------------------------------------------
(* Flush passes.  A pass starts at a "flush" entry of the trace, which      *)
(* holds the buffer the pass found, and ends at the next "flushed" entry   *)
(* of the same depth, or with the trace when a callback raised; the passes *)
(* of the calls that callbacks make in between are deeper.                 *)

Passes == { s \in 1..Len(last.log) : last.log[s].t = "flush" }

PassEnd(s) ==
    IF \E e \in (s + 1)..Len(last.log) :
           last.log[e].t = "flushed" /\ last.log[e].d = last.log[s].d
    THEN CHOOSE e \in (s + 1)..Len(last.log) :
             /\ last.log[e].t = "flushed"
             /\ last.log[e].d = last.log[s].d
             /\ \A x \in (s + 1)..(e - 1) :
                    ~(last.log[x].t = "flushed" /\ last.log[x].d = last.log[s].d)
    ELSE Len(last.log) + 1

\* the places in the trace where pass s did t
PassMarks(s, t) ==
    { j \in (s + 1)..(PassEnd(s) - 1) :
        last.log[j].t = t /\ last.log[j].d = last.log[s].d }

(* C19: a flush pass, of publish, subscribe or trim_by_prefix, outermost   *)
(* or run by a call a callback made, takes at most as many entries out of  *)
(* the buffer as the buffer held when the pass started, the entries it put *)
(* back notwithstanding.                                                   *)
C19_FlushAttemptsBounded ==
    \A s \in Passes :
        Cardinality(PassMarks(s, "pop")) <= Len(last.log[s].buf)

\* a pass that found two entries, took two and put both back
C19_Witness ==
    /\ Buffered(cls)
    /\ \E s \in Passes :
           /\ Len(last.log[s].buf) = 2
           /\ Cardinality(PassMarks(s, "pop")) = 2
           /\ Cardinality(PassMarks(s, "back")) = 2
           /\ PassEnd(s) <= Len(last.log)

(* C20: every entry a flush pass takes out of the buffer was in the buffer *)
(* when the pass started.                                                  *)
C20_FlushTakesOnlyOldEntries ==
    \A s \in Passes :
        \A j \in PassMarks(s, "pop") : last.log[j].ev \in Range(last.log[s].buf)

\* the same for the passes during which no callback called the bus
C20_WithoutReentry ==
    \A s \in Passes :
        (\A x \in (s + 1)..(PassEnd(s) - 1) : last.log[x].d <= last.log[s].d) =>
            \A j \in PassMarks(s, "pop") : last.log[j].ev \in Range(last.log[s].buf)

----------------------------------------------------------------------------
(* The order a flush pass leaves.  Events are told apart by their payload, *)
(* which is fresh at every publish.                                        *)

Finished(s) == PassEnd(s) <= Len(last.log)

\* the buffer pass s left when it returned
PassLeft(s) == last.log[PassEnd(s)].buf

Pos(buf, e) == CHOOSE i \in 1..Len(buf) : buf[i] = e

\* the places where pass s put an entry back for the last time
Survivors(s) ==
    { j \in PassMarks(s, "back") :
        /\ last.log[j].ev \in Range(PassLeft(s))
        /\ \A k \in PassMarks(s, "back") : k > j => last.log[k].ev # last.log[j].ev }

\* the places where, during pass s, a publish made by a callback enqueued
\* an event that is in the buffer when the pass returns
Newcomers(s) ==
    { j \in (s + 1)..(PassEnd(s) - 1) :
        last.log[j].t = "enq" /\ last.log[j].ev \in Range(PassLeft(s)) }

\* those of them that pass s itself did not take out of the buffer afterwards
NewcomersLeftAlone(s) ==
    { j \in Newcomers(s) :
        \A k \in PassMarks(s, "pop") : last.log[k].ev # last.log[j].ev }

SurvivorsKeepOrder(s) ==
    \A i, j \in Survivors(s) :
        i < j => Pos(PassLeft(s), last.log[i].ev) < Pos(PassLeft(s), last.log[j].ev)

----------------------------------------------------------------------------
(* Publishes made by a running callback. *)

\* the places in the trace where a callback published: the entry before is
\* the call of the callback
Republishes ==
    { p \in 2..Len(last.log) : last.log[p].t = "publish" /\ last.log[p].d > 0 }

\* the last place of what the publish noted at p did before it returned to
\* the callback
Extent(p) ==
    IF \E e \in p..Len(last.log) : last.log[e].d < last.log[p].d
    THEN (CHOOSE e \in p..Len(last.log) :
              /\ last.log[e].d < last.log[p].d
              /\ \A x \in p..(e - 1) : last.log[x].d >= last.log[p].d) - 1
    ELSE Len(last.log)

\* how often the publish noted at p ran cb for its event
TimesIn(p, cb) ==
    Cardinality({ k \in p..Extent(p) :
                    /\ last.log[k].t = "call"
                    /\ last.log[k].d = last.log[p].d
                    /\ last.log[k].cb = cb
                    /\ last.log[k].ev = last.log[p].ev })

\* how often the outermost call ran cb for the event ev
TimesFor0(cb, ev) ==
    Cardinality({ i \in 1..Len(Calls0) : Calls0[i].cb = cb /\ Calls0[i].ev = ev })

(* C22: in a publish of E that returned, whenever a callback that was run  *)
(* for an event published F in turn, every callback registered under a     *)
(* pattern matching F was run once for F, and on the buffered bus F was     *)
(* put in the buffer if there was none and a flush pass was run to its end, *)
(* all before the callback returned and so before the next callback of the *)
(* running dispatch; and when that callback was run for E itself, every     *)
(* callback registered under a pattern matching E was run once for E and    *)
(* the publish returned true.                                               *)
C22_ReentrantPublish ==
    Returned("publish") =>
        \A p \in Republishes :
            /\ last.log[p - 1].t = "call"
            /\ last.log[p - 1].d = last.log[p].d - 1
            /\ \A cb \in Callbacks :
                   TimesIn(p, cb) =
                       (IF Subscribed(cb, last.log[p].ev.name) THEN 1 ELSE 0)
            /\ \A k \in 1..Len(last.log) :
                   (last.log[k].t = "call" /\ last.log[k].ev = last.log[p].ev) =>
                       (k > p /\ k <= Extent(p))
            /\ Buffered(cls) =>
                   /\ (\A cb \in Callbacks : ~Subscribed(cb, last.log[p].ev.name)) <=>
                          (\E k \in (p + 1)..Extent(p) :
                               /\ last.log[k].t = "enq"
                               /\ last.log[k].d = last.log[p].d
                               /\ last.log[k].ev = last.log[p].ev)
                   /\ \E s \in Passes :
                          /\ s > p
                          /\ last.log[s].d = last.log[p].d
                          /\ PassEnd(s) = Extent(p)
            /\ (last.log[p - 1].d = 0 /\ last.log[p - 1].ev = last.ev) =>
                   /\ last.ret
                   /\ \A cb \in Callbacks :
                          TimesFor0(cb, last.ev) =
                              (IF Subscribed(cb, last.ev.name) THEN 1 ELSE 0)

\* a publish on the buffered bus that ran h and then f for its event; h
\* published an event that f received before h returned
C22_Witness ==
    /\ Returned("publish")
    /\ Buffered(cls)
    /\ Len(Calls0) >= 2
    /\ Calls0[1].cb = "h"
    /\ Calls0[1].ev = last.ev
    /\ Calls0[2].cb = "f"
    /\ Calls0[2].ev = last.ev
    /\ \E p \in Republishes :
           /\ last.log[p].d = 1
           /\ TimesIn(p, "f") = 1
           /\ \E k \in 1..Len(last.log) :
                  /\ k > Extent(p)
                  /\ last.log[k] = LogEntry("call", "f", last.ev, 0)

\* the same on the core bus
C22_WitnessCore ==
    /\ Returned("publish")
    /\ cls = "JustEventBus"
    /\ Len(Calls0) = 2
    /\ Calls0[1].cb = "h"
    /\ Calls0[2].cb = "f"
    /\ \E p \in Republishes : TimesIn(p, "f") = 1 /\ Extent(p) < Len(last.log)

----------------------------------------------------------------------------
(* Registrations and their removal. *)

\* how many times cb stands under exactly the pattern p
Count(subs, p, cb) ==
    Cardinality({ j \in 1..Len(dict_get(subs, p)) : dict_get(subs, p)[j] = cb })

(* C14: an unsubscribe(p, cb) made while cb is not registered under        *)
(* exactly p, p being a key of the registry or not and cb standing under   *)
(* other patterns or not, returns false, raises nothing, runs nothing and  *)
(* leaves the registry and the buffer as they were; the same call made     *)
(* again returns false again.                                              *)
C14_UnsubscribeUnknownIsNoOp ==
    [][(last'.op = "unsubscribe" /\ Count(subscribers, last'.pat, last'.cb) = 0) =>
          /\ ~last'.ret
          /\ ~last'.raised
          /\ last'.log = <<>>
          /\ subscribers' = subscribers
          /\ buffer' = buffer
          /\ LET again == unsubscribe(World(cls', buffer_max_size', subscribers',
                                            buffer', nid'), last'.pat, last'.cb)
             IN  ~again.ret /\ again.subs = subscribers /\ again.buf = buffer]_vars

\* unsubscribe("a", cb) returned false on a buffered bus that holds an event:
\* "a" is a key with another callback, and cb stands under another pattern
\* that matches the name "a"
C14_Witness ==
    /\ Returned("unsubscribe")
    /\ Buffered(cls)
    /\ ~last.ret
    /\ last.pat = <<"a">>
    /\ dict_get(subscribers, last.pat) # <<>>
    /\ Subscribed(last.cb, <<"a">>)
    /\ buffer # <<>>

(* C15: on the core bus subscribe(p, cb) returns true and puts cb at the   *)
(* end of the list of p, leaving every other list as it was;               *)
(* unsubscribe(p, cb) returns true exactly when cb stands under p, and     *)
(* then takes the first occurrence of cb out of the list of p, so that one *)
(* occurrence fewer is left, and leaves every other list as it was; and a  *)
(* publish runs cb exactly when a registration of cb under a matching      *)
(* pattern is left.                                                        *)
C15_RegistrationsCumulative ==
    [][(cls = "JustEventBus") =>
          /\ (last'.op = "subscribe") =>
                 /\ last'.ret
                 /\ dict_get(subscribers', last'.pat)
                        = Append(dict_get(subscribers, last'.pat), last'.cb)
                 /\ \A q \in Patterns \ {last'.pat} :
                        dict_get(subscribers', q) = dict_get(subscribers, q)
          /\ (last'.op = "unsubscribe") =>
                 LET l == dict_get(subscribers, last'.pat)
                     k == Count(subscribers, last'.pat, last'.cb)
                 IN  /\ last'.ret = (k > 0)
                     /\ Count(subscribers', last'.pat, last'.cb)
                            = (IF k > 0 THEN k - 1 ELSE 0)
                     /\ last'.ret =>
                            \E i \in 1..Len(l) :
                                /\ l[i] = last'.cb
                                /\ \A j \in 1..(i - 1) : l[j] # last'.cb
                                /\ dict_get(subscribers', last'.pat)
                                       = [j \in 1..(Len(l) - 1) |->
                                             IF j < i THEN l[j] ELSE l[j + 1]]
                     /\ \A q \in Patterns \ {last'.pat} :
                            dict_get(subscribers', q) = dict_get(subscribers, q)
          /\ (last'.op = "publish" /\ ~last'.raised) =>
                 \A cb \in Callbacks :
                     (\E i \in 1..Len(last'.log) :
                          /\ last'.log[i].t = "call"
                          /\ last'.log[i].d = 0
                          /\ last'.log[i].cb = cb)
                     <=> (\E q \in Patterns :
                              /\ Matches(q, last'.ev.name)
                              /\ Count(subscribers, q, cb) > 0)]_vars

\* the first of the two unsubscribe calls that take f out of the list
\* <<f, h, f>>: it returned true and left <<h, f>>
C15_Witness ==
    /\ Returned("unsubscribe")
    /\ cls = "JustEventBus"
    /\ last.ret
    /\ last.cb = "f"
    /\ dict_get(subscribers, last.pat) = <<"h", "f">>

----------------------------------------------------------------------------
(* Patterns whose callbacks are all gone. *)

\* no callback is registered under a pattern matching the name, but a
\* pattern matching it is still a key of the registry
OnlyEmptyLists(name) ==
    /\ \A cb \in Callbacks : ~Subscribed(cb, name)
    /\ \E i \in 1..Len(subscribers) : Matches(subscribers[i].pattern, name)

\* what C27 says of unsubscribe and of a later subscribe
C27_UnsubscribeAndReplay ==
    /\ (last'.op = "unsubscribe" /\ Buffered(cls)) =>
           /\ last'.log = <<>>
           /\ buffer' = buffer
           /\ HasKey(subscribers, last'.pat) => HasKey(subscribers', last'.pat)
    /\ (last'.op = "subscribe" /\ Buffered(cls)) =>
           \A k \in 1..Len(buffer) :
               Matches(last'.pat, buffer[k].name) =>
                   /\ Cardinality({ i \in 1..Len(last'.log) :
                                      /\ last'.log[i].t = "call"
                                      /\ last'.log[i].cb = last'.cb
                                      /\ last'.log[i].ev = buffer[k] }) = 1
                   /\ buffer[k] \notin Range(buffer')

(* C27, as stated: on the buffered bus a publish of a name whose matching   *)
(* patterns all have empty lists runs no callback, returns false and leaves *)
(* the event in the buffer; an unsubscribe runs no flush and no callback    *)
(* and leaves the buffer and the keys of the registry as they were; and a   *)
(* subscribe delivers to the new callback, once, every event of the buffer  *)
(* that its pattern matches.                                                *)
C27_DeliveryNeedsCallbacks_AsStated ==
    [][/\ (last'.op = "publish" /\ Buffered(cls) /\ OnlyEmptyLists(last'.ev.name)) =>
              /\ ~last'.ret
              /\ \A i \in 1..Len(last'.log) : last'.log[i].t # "call"
              /\ last'.ev \in Range(buffer')
       /\ C27_UnsubscribeAndReplay]_vars

(* C27, amended: the same, the event being left in the buffer when the     *)
(* capacity of the bus is at least 1; a bus of capacity 0 keeps nothing.   *)
C27_DeliveryNeedsCallbacks ==
    [][/\ (last'.op = "publish" /\ Buffered(cls) /\ OnlyEmptyLists(last'.ev.name)) =>
              /\ ~last'.ret
              /\ \A i \in 1..Len(last'.log) : last'.log[i].t # "call"
              /\ IF buffer_max_size >= 1
                 THEN buffer' # <<>> /\ buffer'[Len(buffer')] = last'.ev
                 ELSE buffer' = <<>>
       /\ C27_UnsubscribeAndReplay]_vars

\* a publish of a name that only patterns with empty lists match: it
\* returned false and the event is the last of the buffer
C27_Witness ==
    /\ Returned("publish")
    /\ Buffered(cls)
    /\ OnlyEmptyLists(last.ev.name)
    /\ ~last.ret
    /\ Len(buffer) = 2
    /\ buffer[2] = last.ev

\* a subscribe under a key that was left with an empty list: it replayed
\* the two events of the buffer to the new callback
C27_WitnessReplay ==
    /\ Returned("subscribe")
    /\ Buffered(cls)
    /\ Len(subscribers) = 2
    /\ subscribers[1].callbacks = <<>>
    /\ subscribers[2].pattern = last.pat
    /\ Len(subscribers[2].callbacks) = 1
    /\ Len(Calls0) = 2
    /\ buffer = <<>>

----------------------------------------------------------------------------
(* Subscribers that raise. *)

AllCallbacks == Callbacks \cup RaisingCallbacks

\* entry e of a trace is the call of a callback that raises on that event
IsRaise(e) == e.t = "call" /\ e.cb \in RaisingCallbacks /\ e.ev.name \in RaiseNames

(* C13: when a callback raises during a publish on the core bus, whether   *)
(* the event is the published one or one a callback published in turn, the *)
(* publish raises to its caller and the raise is the last thing that       *)
(* happened; of the published event, the callbacks that stand before the   *)
(* one the exception came out of ran once each, in delivery order, that    *)
(* one ran once, and those that stand after it did not run.                *)
C13_DispatchFailFast ==
    (last.op = "publish" /\ cls = "JustEventBus"
       /\ \E j \in 1..Len(last.log) : IsRaise(last.log[j])) =>
        /\ last.raised
        /\ IsRaise(last.log[Len(last.log)])
        /\ \A j \in 1..(Len(last.log) - 1) : ~IsRaise(last.log[j])
        /\ Len(Calls0) > 0
        /\ \A i \in 1..Len(Calls0) : Calls0[i].ev = last.ev
        /\ LET thrower == Calls0[Len(Calls0)].cb
           IN  \A cb \in AllCallbacks :
                   Times0(cb) =
                       (IF /\ Places(cb, last.ev.name) # {}
                           /\ \/ cb = thrower
                              \/ Before(FirstPlace(cb, last.ev.name),
                                        FirstPlace(thrower, last.ev.name))
                        THEN 1 ELSE 0)
        /\ \A i, j \in 1..Len(Calls0) :
               i < j => Before(FirstPlace(Calls0[i].cb, last.ev.name),
                               FirstPlace(Calls0[j].cb, last.ev.name))

\* a publish that ran f, then h, out of which came the exception r raised on
\* the event h published, and did not run r for the published event itself
C13_Witness ==
    /\ last.op = "publish"
    /\ cls = "JustEventBus"
    /\ last.raised
    /\ Len(Calls0) = 2
    /\ Calls0[1].cb = "f"
    /\ Calls0[2].cb = "h"
    /\ Subscribed("r", last.ev.name)
    /\ Times0("r") = 0

\* a publish that did not raise although r is subscribed to the event: r
\* does not raise on this name
C13_WitnessQuiet ==
    /\ Returned("publish")
    /\ cls = "JustEventBus"
    /\ Times0("r") = 1

----------------------------------------------------------------------------
(* Callbacks that subscribe and unsubscribe. *)

\* a dispatch of the name in this state would run no callback
Undelivered(name) ==
    dict_get(subscribers, name) \o prefix_callbacks(subscribers, name, 1) = <<>>

\* callback cb was run, at any depth, by the last call
Ran(cb) == \E j \in 1..Len(last.log) : last.log[j].t = "call" /\ last.log[j].cb = cb

(* C23: on the buffered bus, after a publish, subscribe, unsubscribe or    *)
(* trim_by_prefix that returned, whatever the callbacks it ran published,  *)
(* subscribed or unsubscribed, a dispatch of any event of the buffer would *)
(* run no callback.                                                        *)
C23_BufferHoldsOnlyUndeliverable ==
    (Buffered(cls) /\ last.op \in FlushOps \cup {"unsubscribe"} /\ ~last.raised) =>
        \A i \in 1..Len(buffer) : Undelivered(buffer[i].name)

\* a publish during which s subscribed f and which left another event in
\* the buffer
C23_Witness ==
    /\ Buffered(cls)
    /\ Returned("publish")
    /\ Ran("s")
    /\ \E i \in 1..Len(subscribers) : "f" \in Range(subscribers[i].callbacks)
    /\ buffer # <<>>

\* a subscribe during which s subscribed f, and f received a buffered event
\* in the flush of that subscribe
C23_WitnessReplay ==
    /\ Buffered(cls)
    /\ Returned("subscribe")
    /\ Ran("s")
    /\ Ran("f")

\* a call during which h published and s subscribed
C23_WitnessPublishing ==
    /\ Buffered(cls)
    /\ ~last.raised
    /\ Ran("s")
    /\ Ran("h")
    /\ Republishes # {}

\* a call during which u unsubscribed f, the only callback of an event
\* that was published next and is in the buffer
C23_WitnessUnsubscribed ==
    /\ Buffered(cls)
    /\ Returned("publish")
    /\ ~last.ret
    /\ \E i \in 1..Len(subscribers) :
           /\ subscribers[i].callbacks = <<>>
           /\ Matches(subscribers[i].pattern, last.ev.name)
    /\ \E i \in 1..Len(subscribers) : "u" \in Range(subscribers[i].callbacks)
    /\ last.ev \in Range(buffer)

\* the list without the later occurrences of its elements
RECURSIVE Dedup(_)
Dedup(l) ==
    IF l = <<>> THEN <<>>
    ELSE LET front == Dedup(SubSeq(l, 1, Len(l) - 1))
         IN  IF InList(front, l[Len(l)]) THEN front ELSE Append(front, l[Len(l)])

\* the callbacks a dispatch of the name finds in the registry of this state
Snapshot(name) ==
    Dedup(dict_get(subscribers, name) \o prefix_callbacks(subscribers, name, 1))

\* the callbacks the outermost call ran for the event, in the order it ran
\* them
RanFor0(ev) ==
    LET calls == SelectSeq(Calls0, LAMBDA e : e.ev = ev)
    IN  [i \in 1..Len(calls) |-> calls[i].cb]

\* the callbacks the last call ran for the event it was given
RanForOwn == RanFor0(last.ev)

(* C26: the callbacks a publish runs for its event are those that stood in *)
(* the registry under a matching pattern when the publish was called, each *)
(* once and in the order of the registry of that moment, whatever the      *)
(* callbacks subscribed or unsubscribed in the meantime; the changes they  *)
(* made are in the registry the next publish finds.                        *)
C26_DispatchOverSnapshot ==
    [][(last'.op = "publish" /\ ~last'.raised) =>
           RanForOwn' = Snapshot(last'.ev.name)]_vars

\* a publish that ran s and left f, which s subscribed under the name of
\* the event, not run; and that changed the registry
C26_Witness ==
    /\ Returned("publish")
    /\ RanFor0(last.ev) = <<"s">>
    /\ Snapshot(last.ev.name) = <<"s", "f">>

\* a publish that ran u and then f, which u had unsubscribed by then
C26_WitnessUnsubscribed ==
    /\ Returned("publish")
    /\ RanFor0(last.ev) = <<"u", "f">>
    /\ Snapshot(last.ev.name) = <<"u">>

\* the events the last call ran a callback for, at any depth
Delivered ==
    { last.log[j].ev : j \in { k \in 1..Len(last.log) : last.log[k].t = "call" } }

\* the places where the last call ran a callback for the event
CallsOf(e) ==
    { j \in 1..Len(last.log) : last.log[j].t = "call" /\ last.log[j].ev = e }

\* the event was delivered in one dispatch: each callback received it at
\* most once, at one depth, and once a callback had received it the event
\* was not taken from the buffer or put into it again
OneDispatch(e) ==
    /\ \A i, j \in CallsOf(e) :
           /\ last.log[i].d = last.log[j].d
           /\ (i # j) => last.log[i].cb # last.log[j].cb
    /\ \A i \in CallsOf(e) :
           \A j \in (i + 1)..Len(last.log) :
               last.log[j].ev = e => last.log[j].t = "call"

NoDuplicates(buf) == \A i, j \in 1..Len(buf) : i # j => buf[i] # buf[j]

(* C24: on the buffered bus a call runs callbacks only for events that     *)
(* were in the buffer when it was called or were published during it       *)
(* (payloads are fresh at every publish); each such event is delivered in  *)
(* one dispatch and is not in the buffer afterwards; the buffer takes in   *)
(* only events published during the call, and holds no event twice.  So an *)
(* event delivered at its publish never enters the buffer, an event        *)
(* delivered by a flush leaves it then, and neither is delivered again.    *)
C24_DeliveredAtMostOnce ==
    [][(Buffered(cls) /\ last'.op \in FlushOps \cup {"unsubscribe"}) =>
           /\ \A e \in Delivered' :
                  /\ e \in Range(buffer) \/ e.args >= nid
                  /\ OneDispatch(e)'
                  /\ e \notin Range(buffer')
           /\ \A e \in Range(buffer') : e \in Range(buffer) \/ e.args >= nid
           /\ NoDuplicates(buffer')]_vars

\* a subscribe that delivered one buffered event and put the other back,
\* which is still in the buffer
C24_Witness ==
    /\ Buffered(cls)
    /\ Returned("subscribe")
    /\ Cardinality(Delivered) = 1
    /\ Cardinality(Marks0("back")) = 1
    /\ Len(buffer) = 1
    /\ buffer[1] \notin Delivered

\* a publish whose event was delivered at once, to two callbacks, while
\* another event stayed in the buffer
C24_WitnessAtPublish ==
    /\ Buffered(cls)
    /\ Returned("publish")
    /\ last.ret
    /\ Cardinality(CallsOf(last.ev)) = 2
    /\ Len(buffer) = 1

----------------------------------------------------------------------------
(* Subscribers that raise on the buffered bus. *)

\* a callback was called that raises
Thrown ==
    \E j \in 1..Len(last.log) :
        last.log[j].t = "call" /\ Raises(last.log[j].cb, last.log[j].ev)

\* the exception came out of the dispatch publish makes of its own event
ImmediateRaise ==
    /\ last.op = "publish"
    /\ Thrown
    /\ Len(Calls0) > 0
    /\ Calls0[Len(Calls0)].ev = last.ev
    /\ ~Popped0(last.ev)

\* the flush pass of the outermost call, when the exception came out of it
RaisedPasses == { s \in Passes : last.log[s].d = 0 /\ ~Finished(s) }

\* the entry pass s took last
LastTaken(s) ==
    last.log[CHOOSE j \in PassMarks(s, "pop") :
                 \A k \in PassMarks(s, "pop") : k <= j].ev

\* the entries pass s found and did not take
NotTaken(s) ==
    { e \in Range(last.log[s].buf) :
        \A j \in PassMarks(s, "pop") : last.log[j].ev # e }

\* those of them that no pass run by a callback took either
NeverTaken(s) ==
    { e \in Range(last.log[s].buf) :
        \A j \in (s + 1)..Len(last.log) :
            ~(last.log[j].t = "pop" /\ last.log[j].ev = e) }

Only(buf, S) == SelectSeq(buf, LAMBDA e : e \in S)

\* what C25 says of the call the exception came out of, the buffer apart
RaiseLeaves ==
    /\ Thrown => last.raised
    /\ ImmediateRaise =>
           /\ Marks0("enq") = {}
           /\ Marks0("flush") = {}
           /\ last.ev \notin Range(buffer)
    /\ \A s \in RaisedPasses :
           /\ PassMarks(s, "pop") # {}
           /\ LastTaken(s) \notin Range(buffer)
    /\ (last.op = "subscribe" /\ Thrown) =>
           InList(dict_get(subscribers, last.pat), last.cb)

(* C25, as stated: an exception a callback raises comes out of the call;   *)
(* a publish whose dispatch of its own event raised has not put the event  *)
(* in the buffer, has run no flush and leaves the buffer as it was; when    *)
(* the exception comes out of a flush pass, the entry the pass took last is *)
(* not in the buffer, the entries the pass found and had not taken are in  *)
(* the buffer in the order they had, and the registration a subscribe made *)
(* is in the registry.                                                     *)
C25_RaiseLeavesPartialState_AsStated ==
    [][/\ RaiseLeaves'
       /\ ImmediateRaise' => buffer' = buffer
       /\ \A s \in RaisedPasses' :
              Only(buffer', NotTaken(s)') = Only(last'.log[s].buf, NotTaken(s)')]_vars

(* C25, amended: the same, but the buffer is as it was when no callback    *)
(* published before the exception, and the entries that are in the buffer  *)
(* in the order they had are those that neither the pass nor a pass run by *)
(* a callback had taken.                                                   *)
C25_RaiseLeavesPartialState ==
    [][/\ RaiseLeaves'
       /\ (ImmediateRaise' /\ Republishes' = {}) => buffer' = buffer
       /\ \A s \in RaisedPasses' :
              Only(buffer', NeverTaken(s)') = Only(last'.log[s].buf, NeverTaken(s)')]_vars

\* a subscribe that raised in its first redelivery: the entry is lost, the
\* second entry is still in the buffer and the registration stands
C25_Witness ==
    /\ last.op = "subscribe"
    /\ last.raised
    /\ Buffered(cls)
    /\ \E s \in RaisedPasses :
           /\ Cardinality(PassMarks(s, "pop")) = 1
           /\ Len(last.log[s].buf) = 2
           /\ buffer = <<last.log[s].buf[2]>>
    /\ InList(dict_get(subscribers, last.pat), last.cb)

\* a publish whose own dispatch raised
C25_WitnessPublish ==
    /\ ImmediateRaise
    /\ last.raised
    /\ Len(buffer) = 2
    /\ Republishes = {}

----------------------------------------------------------------------------
(* The process and its singletons. *)

MethodOps == {"subscribe", "unsubscribe", "publish", "trim_by_prefix"}

\* callback cb is registered under some pattern of the bus object
RegisteredOn(obj, cb) ==
    \E i \in 1..Len(obj.subs) : cb \in Range(obj.subs[i].callbacks)

(* C11: every construction of a bus class returns the one instance of the  *)
(* class: the first creates it, with an empty registry and buffer; a later *)
(* one returns the same reference and changes nothing, whatever arguments  *)
(* it is given; so every reference ever handed out for a class is to the   *)
(* object the registry and buffer of the class live in.                    *)
C11_SingletonPerClass ==
    [][/\ \A i \in 1..Len(heap') :
              /\ heap'[i].cls \in DOMAIN instances'
              /\ instances'[heap'[i].cls] = i
       /\ (last'.op = "construct" /\ ~last'.raised) =>
              IF last'.cls \in DOMAIN instances
              THEN /\ last'.ref = instances[last'.cls]
                   /\ heap' = heap
                   /\ instances' = instances
              ELSE /\ last'.ref = Len(heap) + 1
                   /\ heap' = Append(heap, heap'[last'.ref])
                   /\ heap'[last'.ref].subs = <<>>
                   /\ heap'[last'.ref].buf = <<>>
                   /\ DOMAIN instances' = DOMAIN instances \cup {last'.cls}
                   /\ \A k \in DOMAIN instances : instances'[k] = instances[k]]_vars

\* JustLogBus(1) called after JustLogBus() was: it returned the bus of
\* capacity 255, which still has its registration and its buffered event
C11_Witness ==
    /\ last.op = "construct"
    /\ last.cls = "JustLogBus"
    /\ last.args = <<1>>
    /\ ~last.raised
    /\ heap[last.ref].cap = DefaultBufferSize
    /\ heap[last.ref].buf # <<>>
    /\ RegisteredOn(heap[last.ref], "f")

(* C12: a construction returns an object of the class that was called, so  *)
(* distinct classes have distinct instances, a class and its subclass too; *)
(* a method called on one bus leaves the registry and buffer of every      *)
(* other bus as they were and runs only callbacks registered on the bus it *)
(* was called on.                                                          *)
C12_DistinctClassesIndependent ==
    [][/\ (last'.op = "construct" /\ ~last'.raised) =>
              heap'[last'.ref].cls = last'.cls
       /\ \A c, k \in DOMAIN instances' : c # k => instances'[c] # instances'[k]
       /\ last'.op \in MethodOps =>
              /\ Len(heap') = Len(heap)
              /\ instances' = instances
              /\ heap'[last'.ref].cls = last'.cls
              /\ \A i \in 1..Len(heap) : i # last'.ref => heap'[i] = heap[i]
              /\ \A j \in 1..Len(last'.log) :
                     last'.log[j].t = "call" =>
                         RegisteredOn(heap'[last'.ref], last'.log[j].cb)]_vars

\* a publish on the JustLogBus that ran no callback and buffered the event,
\* while the BufferedEventBus, its base class, has a callback registered
\* under the name of the event and an event of its own in its buffer
C12_Witness ==
    /\ last.op = "publish"
    /\ last.cls = "JustLogBus"
    /\ \A j \in 1..Len(last.log) : last.log[j].t # "call"
    /\ heap[last.ref].buf = <<last.ev>>
    /\ \E i \in 1..Len(heap) :
           /\ heap[i].cls = "BufferedEventBus"
           /\ \E k \in 1..Len(heap[i].subs) :
                  /\ heap[i].subs[k].pattern = last.ev.name
                  /\ heap[i].subs[k].callbacks # <<>>
           /\ Len(heap[i].buf) = 1

----------------------------------------------------------------------------
(* The log bus. *)

SeverityOf(helper) ==
    CASE helper = "trace" -> "TRACE" [] helper = "debug" -> "DEBUG"
      [] helper = "info" -> "INFO" [] helper = "warn" -> "WARN"
      [] helper = "error" -> "ERROR" [] helper = "fatal" -> "FATAL"

ActionOf(helper) ==
    CASE helper = "trace" -> "log_bus.trace" [] helper = "debug" -> "log_bus.debug"
      [] helper = "info" -> "log_bus.info" [] helper = "warn" -> "log_bus.warn"
      [] helper = "error" -> "log_bus.error" [] helper = "fatal" -> "log_bus.fatal"

\* the places in the trace where the helper that was called published
LogPublished ==
    { j \in 1..Len(last.log) : last.log[j].t = "publish" /\ last.log[j].d = 0 }

\* what every helper does: one publish, named by the source, carrying the
\* message, the action, the severity of the helper and the extras; the event
\* is in the buffer when no callback received it
HelperPublishes ==
    (last.op = "log") =>
        /\ ~last.raised
        /\ Cardinality(LogPublished) = 1
        /\ \A j \in LogPublished :
               LET ev == last.log[j].ev
               IN  /\ ev.name = Default(last.args.source, DefaultSource)
                   /\ ev.args = 0
                   /\ DOMAIN ev.kwargs = {"log_message", "action", "severity"}
                                             \cup DOMAIN last.args.kwargs
                   /\ ev.kwargs.log_message = last.args.message
                   /\ ev.kwargs.action
                          = Default(last.args.action, ActionOf(last.args.helper))
                   /\ ev.kwargs.severity = SeverityOf(last.args.helper)
                   /\ \A k \in DOMAIN last.args.kwargs :
                          ev.kwargs[k] = last.args.kwargs[k]
                   /\ ~Received0(ev) => ev \in Range(heap[last.ref].buf)

\* the messages a subscribe to a source handed to the new callback are in
\* the order in which they were logged
ReplayInEmissionOrder ==
    (last.op = "subscribe" /\ last.cls = "JustLogBus") =>
        \A i, j \in 1..Len(Calls0) :
            (/\ i < j
             /\ Calls0[i].cb = last.cb
             /\ Calls0[j].cb = last.cb
             /\ Calls0[i].ev.name = last.pat
             /\ Calls0[j].ev.name = last.pat) =>
                Calls0[i].ev.kwargs.log_message < Calls0[j].ev.kwargs.log_message

(* C18: each of trace, debug, info, warn, error and fatal makes exactly one *)
(* publish on the JustLogBus, named by the source ('anonymous_logger' when  *)
(* none is given), with the fields log_message, action, severity (the      *)
(* level of the helper) and the extras; an event no callback received is   *)
(* in the buffer, and a callback that later subscribes to the source gets  *)
(* the buffered messages in the order in which they were logged.           *)
C18_LogHelpers == HelperPublishes /\ ReplayInEmissionOrder

----------------------------------------------------------------------------
(* The tool wrapper. *)

\* the places in the trace where the wrapper published an event of this kind
Published(kind) ==
    { j \in 1..Len(last.log) :
        /\ last.log[j].t = "publish"
        /\ last.log[j].ev.name = ToolName \o Dot \o kind }

\* the places in the trace where the wrapped function was called
Invoked == { j \in 1..Len(last.log) : last.log[j].t = "func" }

(* C16: in every call of the wrapped function t, "t.execute" is published  *)
(* before the function is called; if the function returns, "t.result" is   *)
(* published once, after it, with the value, no "t.error" is published and *)
(* the caller gets the value; if the function raises, "t.error" is         *)
(* published once with the exception, no "t.result" is published and the   *)
(* caller gets the exception.                                              *)
C16_ToolEvents ==
    (last.op = "call_tool") =>
        /\ Cardinality(Published(Execute)) = 1
        /\ \A j \in Invoked : \E i \in Published(Execute) : i < j
        /\ (Invoked # {} /\ last.outcome.kind = "return") =>
               /\ Cardinality(Published(Result)) = 1
               /\ \A i \in Published(Result) :
                      /\ \A j \in Invoked : j < i
                      /\ last.log[i].ev.kwargs.result_interceptor = last.outcome.value
               /\ Published(Error) = {}
               /\ ~last.raised
               /\ last.result = last.outcome.value
        /\ (Invoked # {} /\ last.outcome.kind = "raise") =>
               /\ Cardinality(Published(Error)) = 1
               /\ \A i \in Published(Error) :
                      last.log[i].ev.kwargs.error = last.outcome.value
               /\ Published(Result) = {}
               /\ last.raised
               /\ last.exc = last.outcome.value

\* the same while no subscriber raises
C16_ToolEventsQuietSubscribers ==
    (last.op = "call_tool" /\ \A j \in 1..Len(last.log) : ~IsRaise(last.log[j])) =>
        /\ Cardinality(Published(Execute)) = 1
        /\ Cardinality(Invoked) = 1
        /\ (last.outcome.kind = "return") =>
               /\ Cardinality(Published(Result)) = 1
               /\ Published(Error) = {}
               /\ ~last.raised
               /\ last.result = last.outcome.value
        /\ (last.outcome.kind = "raise") =>
               /\ Cardinality(Published(Error)) = 1
               /\ Published(Result) = {}
               /\ last.raised
               /\ last.exc = last.outcome.value

(* C17: every event the wrapper publishes reaches every callback that is   *)
(* subscribed under a matching pattern on a bus JustToolsBus(), whichever  *)
(* of JustTool.subscribe, the class of just_tool and the class of just_bus *)
(* the subscriber got the bus from.                                        *)
C17_OneToolChannel ==
    (last.op = "call_tool" /\ ~last.raised) =>
        \A j \in 1..Len(last.log) :
            last.log[j].t = "publish" =>
                \A i \in 1..Len(heap) :
                    heap[i].cls \in ToolBusClasses =>
                        \A k \in 1..Len(heap[i].subs), cb \in ToolCallbacks :
                            (/\ Matches(heap[i].subs[k].pattern, last.log[j].ev.name)
                             /\ cb \in Range(heap[i].subs[k].callbacks)) =>
                                \E c \in 1..Len(last.log) :
                                    /\ last.log[c].t = "call"
                                    /\ last.log[c].cb = cb
                                    /\ last.log[c].ev = last.log[j].ev

\* the same for the subscribers on the bus of the class of just_tool
C17_ChannelOfTool ==
    (last.op = "call_tool" /\ ~last.raised) =>
        \A j \in 1..Len(last.log) :
            last.log[j].t = "publish" =>
                \A i \in 1..Len(heap) :
                    heap[i].cls = ToolsBusOfTool =>
                        \A k \in 1..Len(heap[i].subs), cb \in ToolCallbacks :
                            (/\ Matches(heap[i].subs[k].pattern, last.log[j].ev.name)
                             /\ cb \in Range(heap[i].subs[k].callbacks)) =>
                                \E c \in 1..Len(last.log) :
                                    /\ last.log[c].t = "call"
                                    /\ last.log[c].cb = cb
                                    /\ last.log[c].ev = last.log[j].ev

----------------------------------------------------------------------------
(* Threads. CPython switches threads between bytecodes, so a method that   *)
(* two threads run on the same bus is a sequence of steps, one per source  *)
(* statement, and the steps of the two threads interleave. Every statement *)
(* is taken as atomic, which is the least interleaving the interpreter     *)
(* allows.                                                                 *)

ThreadIds == { 1, 2 }

ThreadPatterns == { <<"a">>, DotStar }

\* two callbacks that only return
ThreadCallbacks == { "f", "k" }

\* the local variables of a thread that has not started its call
Frame(event_prefix, callback) ==
    [pc |-> "49", event_prefix |-> event_prefix, callback |-> callback,
     absent |-> FALSE, buffer_size |-> 0, i |-> 0, ev |-> NoEvent,
     exc |-> "", calls |-> <<>>]

\* the buffer after the events 1..n were published to a bus without subscribers
Backlog(names) == [j \in 1..Len(names) |-> [name |-> names[j], args |-> j, kwargs |-> "k1"]]

InitThreads ==
    /\ \/ /\ cls = "JustEventBus"
          /\ buffer_max_size = 0
          /\ buffer = <<>>
       \/ /\ cls = "BufferedEventBus"
          /\ buffer_max_size \in 1..MaxCap
          /\ \E n \in 0..MaxCap : \E names \in [1..n -> EventNames] :
                /\ n <= buffer_max_size
                /\ buffer = Backlog(names)
    /\ subscribers = <<>>
    /\ nid = Len(buffer) + 1
    /\ last = NoCall
    /\ instances = <<>>
    /\ heap = <<>>
    /\ threads \in [ThreadIds -> { Frame(p, cb) : p \in ThreadPatterns, cb \in ThreadCallbacks }]

Step(t, frame) ==
    /\ threads' = [threads EXCEPT ![t] = frame]
    /\ UNCHANGED <<cls, buffer_max_size, nid, last, instances, heap>>

\* self._subscribers[event_prefix] = [] : a new key, or a new list under the key
dict_set_empty(subs, key) ==
    IF HasKey(subs, key)
    THEN [subs EXCEPT ![KeyIndex(subs, key)].callbacks = <<>>]
    ELSE Append(subs, [pattern |-> key, callbacks |-> <<>>])

\* line 49: if event_prefix not in self._subscribers
subscribe_49(t) ==
    /\ threads[t].pc = "49"
    /\ Step(t, [threads[t] EXCEPT !.absent = ~HasKey(subscribers, threads[t].event_prefix),
                                  !.pc = IF ~HasKey(subscribers, threads[t].event_prefix)
                                         THEN "50" ELSE "51"])
    /\ UNCHANGED <<subscribers, buffer>>

\* line 50: self._subscribers[event_prefix] = []
subscribe_50(t) ==
    /\ threads[t].pc = "50"
    /\ subscribers' = dict_set_empty(subscribers, threads[t].event_prefix)
    /\ Step(t, [threads[t] EXCEPT !.pc = "51"])
    /\ UNCHANGED buffer

\* line 51: self._subscribers[event_prefix].append(callback); then line 52 of
\* the base class returns, and the buffered class goes on to flush (line 155)
subscribe_51(t) ==
    /\ threads[t].pc = "51"
    /\ subscribers' = [subscribers EXCEPT
                          ![KeyIndex(subscribers, threads[t].event_prefix)].callbacks =
                              Append(@, threads[t].callback)]
    /\ Step(t, [threads[t] EXCEPT !.pc = IF Buffered(cls) THEN "190" ELSE "done"])
    /\ UNCHANGED buffer

\* line 190: buffer_size = len(self._buffer)
flush_190(t) ==
    /\ threads[t].pc = "190"
    /\ Step(t, [threads[t] EXCEPT !.buffer_size = Len(buffer), !.i = 1, !.pc = "193"])
    /\ UNCHANGED <<subscribers, buffer>>

\* lines 193-195: for _ in range(buffer_size): if not self._buffer: break
flush_193(t) ==
    /\ threads[t].pc = "193"
    /\ Step(t, [threads[t] EXCEPT !.pc = IF threads[t].i > threads[t].buffer_size
                                            \/ Len(buffer) = 0
                                         THEN "done" ELSE "197"])
    /\ UNCHANGED <<subscribers, buffer>>

\* line 197: self._buffer.popleft(), an IndexError on an empty deque
flush_197(t) ==
    /\ threads[t].pc = "197"
    /\ IF Len(buffer) = 0
       THEN /\ Step(t, [threads[t] EXCEPT !.exc = "IndexError", !.pc = "done"])
            /\ UNCHANGED buffer
       ELSE /\ Step(t, [threads[t] EXCEPT !.ev = Head(buffer), !.pc = "205"])
            /\ buffer' = Tail(buffer)
    /\ UNCHANGED subscribers

\* the callbacks a dispatch has called, in order
CallsIn(log) ==
    LET calls == SelectSeq(log, LAMBDA e : e.t = "call")
    IN  [j \in 1..Len(calls) |-> [cb |-> calls[j].cb, ev |-> calls[j].ev]]

\* lines 205-209: dispatch the event, and append it again if it found nobody
flush_205(t) ==
    /\ threads[t].pc = "205"
    /\ \E w \in { JustEventBus_dispatch_event(
                     World(cls, buffer_max_size, subscribers, buffer, nid), threads[t].ev) } :
          /\ buffer' = IF ~w.ret THEN deque_append(buffer, buffer_max_size, threads[t].ev)
                       ELSE buffer
          /\ Step(t, [threads[t] EXCEPT !.calls = @ \o CallsIn(w.log),
                                        !.i = @ + 1, !.ev = NoEvent, !.pc = "193"])
    /\ UNCHANGED subscribers

NextThreads ==
    \/ \E t \in ThreadIds : subscribe_49(t)
    \/ \E t \in ThreadIds : subscribe_50(t)
    \/ \E t \in ThreadIds : subscribe_51(t)
    \/ \E t \in ThreadIds : flush_190(t)
    \/ \E t \in ThreadIds : flush_193(t)
    \/ \E t \in ThreadIds : flush_197(t)
    \/ \E t \in ThreadIds : flush_205(t)

SpecThreads == InitThreads /\ [][NextThreads]_vars

\* both calls have returned, or ended in an exception
BothOver == \A t \in ThreadIds : threads[t].pc = "done"

\* the calls of subscribe(p, cb) that the threads make
Subscribing(p, cb) ==
    Cardinality({ t \in ThreadIds : threads[t].event_prefix = p /\ threads[t].callback = cb })

\* every registration that a thread made is in the registry
BothRegistered ==
    \A p \in ThreadPatterns, cb \in ThreadCallbacks : Count(subscribers, p, cb) = Subscribing(p, cb)

\* the calls that all flushes made, in thread order
AllCalls == threads[1].calls \o threads[2].calls

\* no callback was called twice with the same event
DeliveredOnce ==
    \A i, j \in 1..Len(AllCalls) : AllCalls[i] = AllCalls[j] => i = j

\* no flush took from an empty buffer
NoEmptyDequeue == \A t \in ThreadIds : threads[t].exc = ""

(* C28: when two threads call subscribe on the same bus at the same time,  *)
(* then once both calls are over the registry holds both registrations,    *)
(* no callback was called twice with the same buffered event, and no       *)
(* flush took an entry from an empty buffer.                               *)
C28_ConcurrentSubscribe ==
    BothOver => BothRegistered /\ DeliveredOnce /\ NoEmptyDequeue

\* the part of C28 that the code keeps: an event is taken out by one thread
C28_DeliveredAtMostOnce == DeliveredOnce

\* both threads subscribed to the same new pattern and have returned
C28_WitnessSamePattern ==
    /\ BothOver
    /\ threads[1].event_prefix = threads[2].event_prefix
    /\ threads[1].absent /\ threads[2].absent

\* both threads saw the key absent, and one registration is gone
C28_WitnessLost ==
    /\ C28_WitnessSamePattern
    /\ ~BothRegistered

\* a flush dequeued from the buffer that the other flush had emptied
C28_WitnessIndexError == BothOver /\ ~NoEmptyDequeue

\* both flushes delivered a buffered event
C28_WitnessBothDeliver ==
    /\ BothOver
    /\ threads[1].calls # <<>> /\ threads[2].calls # <<>>

----------------------------------------------------------------------------
(* Two threads construct buses. SingletonMeta.__call__ is a test (line 11),*)
(* the construction of the object and its storing in _instances (line 12), *)
(* and a lookup (line 13); the threads interleave between these steps.     *)

\* the local variables of a thread that has not started cls(*args)
CallFrame(c, args) ==
    [pc |-> "11", cls |-> c, args |-> args, absent |-> FALSE, obj |-> 0, ref |-> 0,
     exc |-> "", delivered |-> FALSE]

InitConstructThreads ==
    /\ cls = "object"
    /\ buffer_max_size = 0
    /\ subscribers = <<>>
    /\ buffer = <<>>
    /\ nid = 1
    /\ last = NoProcCall
    /\ instances = <<>>
    /\ heap = <<>>
    /\ threads \in [ThreadIds -> { CallFrame(c, args) : c \in Classes, args \in CtorArgs }]

StepCall(t, frame) ==
    /\ threads' = [threads EXCEPT ![t] = frame]
    /\ UNCHANGED <<cls, buffer_max_size, subscribers, buffer, last>>

\* line 11: if cls not in cls._instances
call_11(t) ==
    /\ threads[t].pc = "11"
    /\ StepCall(t, [threads[t] EXCEPT !.absent = threads[t].cls \notin DOMAIN instances,
                                      !.pc = IF threads[t].cls \notin DOMAIN instances
                                             THEN "12" ELSE "13"])
    /\ UNCHANGED <<instances, heap, nid>>

\* line 12, right-hand side: super().__call__(*args, **kwargs)
call_12(t) ==
    /\ threads[t].pc = "12"
    /\ LET r == type_call(threads[t].cls, threads[t].args)
       IN  IF r.raised
           THEN /\ StepCall(t, [threads[t] EXCEPT !.exc = "TypeError", !.pc = "raised"])
                /\ UNCHANGED heap
           ELSE /\ StepCall(t, [threads[t] EXCEPT !.obj = Len(heap) + 1, !.pc = "12=" ])
                /\ heap' = Append(heap, r.obj)
    /\ UNCHANGED <<instances, nid>>

\* line 12, assignment: cls._instances[cls] = the new object
call_12_store(t) ==
    /\ threads[t].pc = "12="
    /\ instances' = (threads[t].cls :> threads[t].obj) @@ instances
    /\ StepCall(t, [threads[t] EXCEPT !.pc = "13"])
    /\ UNCHANGED <<heap, nid>>

\* line 13: return cls._instances[cls]
call_13(t) ==
    /\ threads[t].pc = "13"
    /\ StepCall(t, [threads[t] EXCEPT !.ref = instances[threads[t].cls], !.pc = "ready"])
    /\ UNCHANGED <<instances, heap, nid>>

\* the thread subscribes f to "a" on the bus it obtained
thread_subscribe(t) ==
    /\ threads[t].pc = "ready"
    /\ \E w \in { subscribe(WorldOf(threads[t].ref), <<"a">>, "f") } :
          /\ heap' = [heap EXCEPT ![threads[t].ref].subs = w.subs,
                                  ![threads[t].ref].buf = w.buf]
          /\ nid' = w.nid
    /\ StepCall(t, [threads[t] EXCEPT !.pc = "subscribed"])
    /\ UNCHANGED instances

\* after another thread has subscribed, the thread publishes "a" on the bus
\* it obtained
thread_publish(t) ==
    /\ threads[t].pc = "ready"
    /\ \E u \in ThreadIds : threads[u].pc = "subscribed"
    /\ \E w \in { publish([WorldOf(threads[t].ref) EXCEPT !.nid = @ + 1],
                          [name |-> <<"a">>, args |-> nid, kwargs |-> "k1"]) } :
          /\ heap' = [heap EXCEPT ![threads[t].ref].subs = w.subs,
                                  ![threads[t].ref].buf = w.buf]
          /\ nid' = w.nid
          /\ StepCall(t, [threads[t] EXCEPT !.delivered = w.ret, !.pc = "published"])
    /\ UNCHANGED instances

NextConstructThreads ==
    \/ \E t \in ThreadIds : call_11(t)
    \/ \E t \in ThreadIds : call_12(t)
    \/ \E t \in ThreadIds : call_12_store(t)
    \/ \E t \in ThreadIds : call_13(t)
    \/ \E t \in ThreadIds : thread_subscribe(t)
    \/ \E t \in ThreadIds : thread_publish(t)

SpecConstructThreads == InitConstructThreads /\ [][NextConstructThreads]_vars

\* the thread's construction has returned a bus
Obtained(t) == threads[t].pc \in { "ready", "subscribed", "published" }

\* the objects of class c constructed so far
Created(c) == { r \in 1..Len(heap) : heap[r].cls = c }

\* the two threads hold the same bus
SameInstance == Obtained(1) /\ Obtained(2) => threads[1].ref = threads[2].ref

\* a publish after the other thread's subscription found the subscriber
SubscriptionVisible == \A t \in ThreadIds : threads[t].pc = "published" => threads[t].delivered

(* C29: when two threads construct the same bus class for the first time   *)
(* at the same time, both obtain the same instance, at most one object of  *)
(* the class is created, and a subscription made through the reference of  *)
(* one thread is found by a publish through the reference of the other.    *)
C29_ConcurrentConstruction ==
    threads[1].cls = threads[2].cls =>
        /\ SameInstance
        /\ Cardinality(Created(threads[1].cls)) <= 1
        /\ SubscriptionVisible

\* both threads found the class absent and each constructed an object
C29_WitnessTwoInstances ==
    /\ threads[1].cls = threads[2].cls
    /\ Cardinality(Created(threads[1].cls)) = 2

\* the threads hold different buses, and the publish of one did not reach the
\* subscriber of the other
C29_WitnessInvisible ==
    /\ threads[1].cls = threads[2].cls
    /\ Obtained(1) /\ Obtained(2)
    /\ threads[1].ref # threads[2].ref
    /\ ~SubscriptionVisible

\* the threads did not interleave, and share the bus and the subscription
C29_WitnessShared ==
    /\ threads[1].cls = threads[2].cls
    /\ threads[1].ref = threads[2].ref
    /\ \E t \in ThreadIds : threads[t].pc = "published" /\ threads[t].delivered

============================================================================
